---- MODULE Spec2Model ----
(***************************************************************************)
(* Codefolio backend engine (src/backend/backend.py): the path filter,     *)
(* the repository walker, the status classification, the README            *)
(* synthesizer and the full-scan driver, each as a state machine.          *)
(*                                                                         *)
(* Text is modelled as a sequence of one-character strings, so that the    *)
(* normalisation done by should_skip_path (URL-decoding, lower-casing,     *)
(* separator replacement, splitting) is computed and not assumed.          *)
(***************************************************************************)
EXTENDS Integers, Sequences, FiniteSets, TLC

VARIABLES
    \* ---- path filter (should_skip_path) ----
    canon,        \* the canonical path: a sequence of lower-case segments
    style,        \* how the canonical path is written (case, separator, escaping)
    path,         \* the string handed to should_skip_path
    skipResult,   \* "none" before the call, then the returned boolean
    pathPc,
    \* ---- aggregation and classification (analyze_repo) ----
    stars,        \* repo.stargazers_count
    file_count,
    loc,
    todo_count,
    status,       \* "none" until analyze_repo sets it
    imports,      \* the Counter: name and count, in insertion order
    meta_imports, \* meta["imports"]: the table stored in the feature record
    walked,       \* the files the loop has gone through, in walk order
    repo_samples, \* samples: path and snippet of the sampled files
    analyzePc,
    \* ---- repository walker (walk_repo_files) ----
    stack,          \* the nested generator frames: directory, listed?, next item
    yielded,        \* the file records yielded so far, in order
    skipped_dirs,   \* stats["skipped_dirs"]
    skipped_files,  \* stats["skipped_files"]
    failedDirs,     \* directories whose listing raised
    failedFiles,    \* files whose content fetch raised
    walkPc,
    \* ---- README synthesizer (generate_portfolio_readme) ----
    repo_meta,      \* the feature record handed in
    openai_key,     \* the openai_key argument
    available,      \* OPENAI_AVAILABLE: the openai module could be imported
    svc,            \* what the enhancement service did, "none" if not called
    readme,         \* the returned document, empty before the return
    readmePc,
    \* ---- full scan (run_full_scan) ----
    config,             \* the config dictionary
    progress_callback,  \* "none", or how the observer behaves: "raises"
    OPENAI_AVAILABLE,
    filtered_repos,     \* names of the repositories to scan, in order
    idx,                \* 1-based position in filtered_repos (idx+1 of the code)
    events,             \* the calls of send_progress, in order
    disk,               \* the output directory: file name -> content
    scan_meta,          \* analyze_repo's result for the current repository (meta)
    readme_content,     \* the document generated for the current repository
    history,            \* per finished repository: what failed, what the service did
    aiCalls,            \* calls of the enhancement service so far
    commitCalls,        \* positions for which commit_readme_to_repo was called
    writes,             \* the artifacts written whole, in order
    scanPc,
    \* ---- feature extraction (analyze_code_functionality) ----
    samples,            \* the sampled files: path and snippet
    sampleIdx,          \* the samples the loop has gone through
    functionality,      \* the record being built, then the one returned
    second,             \* what a second call on the same samples returned
    funcPc

pathVars == <<canon, style, path, skipResult, pathPc>>

analyzeVars == <<stars, file_count, loc, todo_count, status, imports, meta_imports, walked,
                 repo_samples, analyzePc>>

walkVars == <<stack, yielded, skipped_dirs, skipped_files, failedDirs, failedFiles, walkPc>>

readmeVars == <<repo_meta, openai_key, available, svc, readme, readmePc>>

scanVars == <<config, progress_callback, OPENAI_AVAILABLE, filtered_repos, idx, events,
              disk, scan_meta, readme_content, history, aiCalls, commitCalls, writes, scanPc>>

funcVars == <<samples, sampleIdx, functionality, second, funcPc>>

vars == <<pathVars, analyzeVars, walkVars, readmeVars, scanVars, funcVars>>

(***************************************************************************)
(* Bounds of the model.                                                    *)
(***************************************************************************)
MaxSegs == 3      \* longest canonical path, in segments
MaxFiles == 4     \* most files one walk yields, files of any length
MaxWalk == 9      \* most files a walk of one-line files yields

(***************************************************************************)
(* Characters and strings.                                                 *)
(***************************************************************************)
\* printable ASCII, code 32 at index 1 (codes 39 and 96 under a name)
Ascii == <<" ", "!", "\"", "#", "$", "%", "&", "<quote>", "(", ")", "*", "+", ",", "-",
           ".", "/", "0", "1", "2", "3", "4", "5", "6", "7", "8", "9", ":", ";",
           "<", "=", ">", "?", "@", "A", "B", "C", "D", "E", "F", "G", "H", "I",
           "J", "K", "L", "M", "N", "O", "P", "Q", "R", "S", "T", "U", "V", "W",
           "X", "Y", "Z", "[", "\\", "]", "^", "_", "<grave>", "a", "b", "c", "d", "e",
           "f", "g", "h", "i", "j", "k", "l", "m", "n", "o", "p", "q", "r", "s",
           "t", "u", "v", "w", "x", "y", "z", "{", "|", "}", "~">>

AsciiChars == {Ascii[i] : i \in 1..Len(Ascii)}

IsAscii(c) == c \in AsciiChars

\* ord(c) for the printable ASCII characters
CodeTable == [c \in AsciiChars |-> 31 + (CHOOSE i \in 1..Len(Ascii) : Ascii[i] = c)]

CodeOf(c) == CodeTable[c]

\* a byte outside printable ASCII decodes to some character the model does not
\* distinguish further
OtherChar == "<other>"

CharOf(n) == IF n >= 32 /\ n <= 126 THEN Ascii[n - 31] ELSE OtherChar

LowerTable ==
    [c \in AsciiChars |->
        IF CodeTable[c] >= 65 /\ CodeTable[c] <= 90 THEN Ascii[CodeTable[c] + 1] ELSE c]

UpperTable ==
    [c \in AsciiChars |->
        IF CodeTable[c] >= 97 /\ CodeTable[c] <= 122 THEN Ascii[CodeTable[c] - 63] ELSE c]

\* str.lower() on one character
Lower(c) == IF IsAscii(c) THEN LowerTable[c] ELSE c

Upper(c) == IF IsAscii(c) THEN UpperTable[c] ELSE c

StrLowerKeepsCase(s) == s

\* str.lower()
StrLower(s) == [i \in 1..Len(s) |-> Lower(s[i])]

StrUpper(s) == [i \in 1..Len(s) |-> Upper(s[i])]

HexDigits == <<"0", "1", "2", "3", "4", "5", "6", "7", "8", "9",
               "a", "b", "c", "d", "e", "f">>

HexTable ==
    [c \in {HexDigits[i] : i \in 1..Len(HexDigits)} |->
        (CHOOSE i \in 1..Len(HexDigits) : HexDigits[i] = c) - 1]

IsHex(c) == Lower(c) \in DOMAIN HexTable

HexVal(c) == HexTable[Lower(c)]

\* urllib.parse.unquote: %XX with two hex digits becomes the byte XX, any
\* other "%" is kept as it is
RECURSIVE UnquoteFrom(_, _)
UnquoteFrom(s, i) ==
    IF i > Len(s) THEN <<>>
    ELSE IF s[i] = "%" /\ i + 2 <= Len(s) /\ IsHex(s[i+1]) /\ IsHex(s[i+2])
         THEN <<CharOf(16 * HexVal(s[i+1]) + HexVal(s[i+2]))>> \o UnquoteFrom(s, i + 3)
         ELSE <<s[i]>> \o UnquoteFrom(s, i + 1)

Unquote(s) == UnquoteFrom(s, 1)

\* str.replace(old, new) for single characters
ReplaceChar(s, old, new) == [i \in 1..Len(s) |-> IF s[i] = old THEN new ELSE s[i]]

\* str.split(sep) for a single-character separator: always at least one part
RECURSIVE SplitFrom(_, _, _, _)
SplitFrom(s, sep, i, cur) ==
    IF i > Len(s) THEN <<cur>>
    ELSE IF s[i] = sep THEN <<cur>> \o SplitFrom(s, sep, i + 1, <<>>)
         ELSE SplitFrom(s, sep, i + 1, Append(cur, s[i]))

Split(s, sep) == SplitFrom(s, sep, 1, <<>>)

Range(s) == {s[i] : i \in 1..Len(s)}

\* pattern in s
Contains(pattern, s) ==
    \E k \in 0..(Len(s) - Len(pattern)) :
        \A j \in 1..Len(pattern) : s[k + j] = pattern[j]

\* s.startswith(".")
StartsWithDot(s) == Len(s) >= 1 /\ s[1] = "."

(***************************************************************************)
(* Path filter.                                                            *)
(***************************************************************************)
IGNORED_DIRS == {
    <<"n", "o", "d", "e", "_", "m", "o", "d", "u", "l", "e", "s">>,
    <<"_", "_", "p", "y", "c", "a", "c", "h", "e", "_", "_">>,
    <<".", "g", "i", "t">>,
    <<".", "s", "v", "n">>,
    <<".", "h", "g">>,
    <<"d", "i", "s", "t">>,
    <<"b", "u", "i", "l", "d">>,
    <<".", "e", "g", "g", "s">>,
    <<"*", ".", "e", "g", "g", "-", "i", "n", "f", "o">>,
    <<".", "p", "y", "t", "e", "s", "t", "_", "c", "a", "c", "h", "e">>,
    <<".", "t", "o", "x">>,
    <<".", "n", "o", "x">>,
    <<"v", "e", "n", "d", "o", "r">>,
    <<"v", "e", "n", "d", "o", "r", "s">>,
    <<"t", "h", "i", "r", "d", "_", "p", "a", "r", "t", "y">>,
    <<".", "i", "d", "e", "a">>,
    <<".", "v", "s", "c", "o", "d", "e">>,
    <<".", "v", "s">> }

VENV_PATTERNS == {
    <<"v", "e", "n", "v">>,
    <<"e", "n", "v">>,
    <<"m", "y", "e", "n", "v">>,
    <<"m", "y", "v", "e", "n", "v">>,
    <<".", "v", "e", "n", "v">>,
    <<"v", "i", "r", "t", "u", "a", "l", "e", "n", "v">>,
    <<"s", "i", "t", "e", "-", "p", "a", "c", "k", "a", "g", "e", "s">>,
    <<"/", "l", "i", "b", "/">>,
    <<"/", "s", "c", "r", "i", "p", "t", "s", "/">>,
    <<"/", "i", "n", "c", "l", "u", "d", "e", "/">>,
    <<"/", "s", "h", "a", "r", "e", "/">>,
    <<"/", "b", "i", "n", "/">>,
    <<"p", "y", "v", "e", "n", "v">> }

\* the second pass over the whole decoded path
VENV_INDICATORS == {
    <<"s", "i", "t", "e", "-", "p", "a", "c", "k", "a", "g", "e", "s">>,
    <<"/", "l", "i", "b", "/">>,
    <<"/", "s", "c", "r", "i", "p", "t", "s", "/">>,
    <<"/", "s", "h", "a", "r", "e", "/">>,
    <<"/", "p", "y", "v", "e", "n", "v">> }

Dot == <<".">>

DotDot == <<".", ".">>

\* part.startswith(".") and part not in [".", ".."]
IsHiddenPart(part) == StartsWithDot(part) /\ part \notin {Dot, DotDot}

InIgnoredDirsAsSubstring(part) == \E d \in IGNORED_DIRS : Contains(d, part)

\* part in IGNORED_DIRS
InIgnoredDirs(part) == part \in IGNORED_DIRS

\* any(pattern in part for pattern in VENV_PATTERNS)
HasVenvPattern(part) == \E p \in VENV_PATTERNS : Contains(p, part)

\* path_decoded = unquote(path).lower()
PathDecoded(p) == StrLower(Unquote(p))

\* path_parts = path_decoded.replace("\\", "/").split("/")
PathParts(p) == Split(ReplaceChar(PathDecoded(p), "\\", "/"), "/")

should_skip_path(p) ==
    LET path_decoded == PathDecoded(p)
        path_parts == PathParts(p)
    IN  \/ \E part \in Range(path_parts) :
              \/ IsHiddenPart(part)
              \/ InIgnoredDirs(part)
              \/ HasVenvPattern(part)
        \/ \E ind \in VENV_INDICATORS : Contains(ind, path_decoded)

(***************************************************************************)
(* The paths the filter is applied to: a canonical path (lower-case        *)
(* segments) written in one of several styles.                             *)
(***************************************************************************)
Segments == {
    <<"s", "r", "c">>,
    <<".", "g", "i", "t">>,
    <<"n", "o", "d", "e", "_", "m", "o", "d", "u", "l", "e", "s">>,
    <<"v", "e", "n", "d", "o", "r">>,
    <<".", ".">>,
    <<"r", "e", "b", "u", "i", "l", "d">>,
    <<"l", "i", "b">>,
    <<"b", "i", "n">>,
    <<>> }

CanonPaths == UNION { [1..n -> Segments] : n \in 1..MaxSegs }

\* upper: written in capitals; sep: the separator used; escaped: dots and
\* separators written as %XX
Styles == [upper : BOOLEAN, sep : {"/", "\\"}, escaped : BOOLEAN]

Hex2(c) == <<"%", HexDigits[(CodeOf(c) \div 16) + 1], HexDigits[(CodeOf(c) % 16) + 1]>>

RECURSIVE Escape(_)
Escape(s) ==
    IF s = <<>> THEN <<>>
    ELSE (IF Head(s) \in {".", "/", "\\"} THEN Hex2(Head(s)) ELSE <<Head(s)>>)
         \o Escape(Tail(s))

RECURSIVE Join(_, _)
Join(segs, sep) ==
    IF Len(segs) = 0 THEN <<>>
    ELSE IF Len(segs) = 1 THEN segs[1]
    ELSE segs[1] \o <<sep>> \o Join(Tail(segs), sep)

Render(segs, st) ==
    LET joined == Join(segs, st.sep)
        cased  == IF st.upper THEN StrUpper(joined) ELSE joined
    IN  IF st.escaped THEN Escape(cased) ELSE cased

PathIdle ==
    /\ canon = <<>>
    /\ style = "none"
    /\ path = <<>>
    /\ skipResult = "none"
    /\ pathPc = "off"

AnalyzeIdle ==
    /\ stars = 0
    /\ file_count = 0
    /\ loc = 0
    /\ todo_count = 0
    /\ status = "none"
    /\ imports = <<>>
    /\ meta_imports = <<>>
    /\ walked = <<>>
    /\ repo_samples = <<>>
    /\ analyzePc = "off"

WalkIdle ==
    /\ stack = <<>>
    /\ yielded = <<>>
    /\ skipped_dirs = 0
    /\ skipped_files = 0
    /\ failedDirs = {}
    /\ failedFiles = {}
    /\ walkPc = "off"

ReadmeIdle ==
    /\ repo_meta = "none"
    /\ openai_key = "none"
    /\ available = FALSE
    /\ svc = "none"
    /\ readme = "none"
    /\ readmePc = "off"

ScanIdle ==
    /\ config = "none"
    /\ progress_callback = "none"
    /\ OPENAI_AVAILABLE = FALSE
    /\ filtered_repos = <<>>
    /\ idx = 0
    /\ events = <<>>
    /\ disk = <<>>
    /\ scan_meta = "none"
    /\ readme_content = <<>>
    /\ history = <<>>
    /\ aiCalls = 0
    /\ commitCalls = <<>>
    /\ writes = <<>>
    /\ scanPc = "off"

FuncIdle ==
    /\ samples = <<>>
    /\ sampleIdx = 0
    /\ functionality = "none"
    /\ second = "none"
    /\ funcPc = "off"

PathInit ==
    /\ canon \in CanonPaths
    /\ style \in Styles
    /\ path = Render(canon, style)
    /\ skipResult = "none"
    /\ pathPc = "call"

\* one call of should_skip_path(path)
CallShouldSkip ==
    /\ pathPc = "call"
    /\ skipResult' = should_skip_path(path)
    /\ pathPc' = "done"
    /\ UNCHANGED <<canon, style, path>>
    /\ UNCHANGED <<analyzeVars, walkVars, readmeVars, scanVars, funcVars>>

PathNext == CallShouldSkip

SpecPathInit == PathInit /\ AnalyzeIdle /\ WalkIdle /\ ReadmeIdle /\ ScanIdle /\ FuncIdle

SpecPath == SpecPathInit /\ [][PathNext]_vars

(***************************************************************************)
(* Claims about the path filter.                                           *)
(***************************************************************************)
\* the canonical path as one string
CanonText(segs) == Join(segs, "/")

HasDotSegment(segs) == \E i \in 1..Len(segs) : Len(segs[i]) >= 1 /\ segs[i][1] = "."

HasHiddenSegment(segs) ==
    \E i \in 1..Len(segs) :
        Len(segs[i]) >= 1 /\ segs[i][1] = "." /\ segs[i] # Dot /\ segs[i] # DotDot

HasIgnoredSegment(segs) == \E i \in 1..Len(segs) : segs[i] \in IGNORED_DIRS

\* C9: a path with a segment starting with "." (other than "." and "..") or
\* with a name of the ignored-name set as an exact segment is skipped,
\* whatever case, separator or URL-escaping it is written in.
C9_HiddenOrIgnoredSkipped ==
    (pathPc = "done" /\ (HasHiddenSegment(canon) \/ HasIgnoredSegment(canon)))
        => skipResult = TRUE

C9_Witness ==
    /\ pathPc = "done"
    /\ HasIgnoredSegment(canon) /\ ~HasHiddenSegment(canon)
    /\ style.upper /\ style.escaped /\ style.sep = "\\"
    /\ Len(canon) >= 2
    /\ skipResult = TRUE

HasVenvSubstring(segs) == \E p \in VENV_PATTERNS : Contains(p, CanonText(segs))

\* C10: a path in which no segment starts with ".", no segment is a name of
\* the ignored-name set and no virtual-environment substring occurs is not
\* skipped.
C10_CleanPathKept ==
    (/\ pathPc = "done"
     /\ ~HasDotSegment(canon)
     /\ ~HasIgnoredSegment(canon)
     /\ ~HasVenvSubstring(canon))
        => skipResult = FALSE

C10_Witness ==
    /\ pathPc = "done"
    /\ ~HasDotSegment(canon) /\ ~HasIgnoredSegment(canon) /\ ~HasVenvSubstring(canon)
    /\ \E i \in 1..Len(canon) : canon[i] = <<"r", "e", "b", "u", "i", "l", "d">>
    /\ \E i \in 1..Len(canon) : canon[i] = <<"b", "i", "n">>
    /\ style.upper /\ style.escaped /\ style.sep = "\\"
    /\ skipResult = FALSE

\* the style that differs from st in the separator only
OtherSeparator(st) == [st EXCEPT !.sep = IF st.sep = "/" THEN "\\" ELSE "/"]

\* C20 as stated: a path whose normalized form (decoded, lower-case, one
\* separator style) contains a strong indicator is skipped, and the path
\* written with the other separator gets the same result.
C20_IndicatorsOnNormalizedPath ==
    pathPc = "done" =>
        /\ (\E ind \in VENV_INDICATORS : Contains(ind, CanonText(canon))) => skipResult = TRUE
        /\ skipResult = should_skip_path(Render(canon, OtherSeparator(style)))

\* C21 as stated: a path whose decoded, lower-cased text contains an entry
\* of the virtual-environment substring set (/bin/ and /include/ among them)
\* is skipped.
C21_EveryVenvSubstringExcludes ==
    pathPc = "done" =>
        ((\E p \in VENV_PATTERNS : Contains(p, PathDecoded(path))) => skipResult = TRUE)

(***************************************************************************)
(* Aggregation and classification: analyze_repo folds the walked files     *)
(* into file_count, loc and todo_count and derives the status.             *)
(***************************************************************************)
\* line counts of the files a walk may yield (len(content.splitlines()))
FileLines == {1, 50, 99, 100}

StarCounts == {0, 3, 4}

\* dict(imports.most_common(12)): the import table keeps this many names
MaxImports == 12

\* files as the import scan sees them: the module references IMPORT_RE would
\* match in the whole content, in order, and how many of them lie in the first
\* 3000 characters
AppFile ==
    [refs |-> <<<<"o", "s">>, <<"s", "y", "s">>, <<"r", "e">>, <<"j", "s", "o", "n">>, <<"f",
        "l", "a", "s", "k">>, <<"o", "s", ".", "p", "a", "t", "h">>, <<"c", "s", "v">>, <<"i",
        "o">>,
                <<"y", "a", "m", "l">>>>,
     scanned |-> 8]

LibFile ==
    [refs |-> <<<<"a", "s", "t">>, <<"d", "i", "s">>, <<"p", "d", "b">>, <<"z", "l", "i",
        "b">>, <<".", "m", "o", "d", "e", "l", "s">>, <<"o", "s">>, <<"s", "y", "s">>, <<"a",
        "b", "c">>,
                <<"u", "u", "i", "d">>>>,
     scanned |-> 9]

ImportFiles == {AppFile, LibFile}

\* IMPORT_RE.findall(f["content"][:3000])
ScannedRefs(f) == SubSeq(f.refs, 1, f.scanned)

\* m.split(".")[0]
TopLevel(m) == Split(m, ".")[1]

\* the keys one file increments, in order
ScannedNames ==
    [f \in ImportFiles |->
        [i \in 1..Len(ScannedRefs(f)) |-> TopLevel(ScannedRefs(f)[i])] \o <<>>]

\* position of a key in the Counter (a dict: keys in insertion order), 0 if new
KeyAt(counter, name) ==
    IF \E i \in 1..Len(counter) : counter[i].name = name
    THEN CHOOSE i \in 1..Len(counter) : counter[i].name = name
    ELSE 0

\* imports[name] += 1
Increment(counter, name) ==
    LET k == KeyAt(counter, name)
    IN  IF k = 0 THEN Append(counter, [name |-> name, count |-> 1])
        ELSE [counter EXCEPT ![k].count = @ + 1]

\* for m in IMPORT_RE.findall(...): imports[m.split(".")[0]] += 1
RECURSIVE CountRefs(_, _)
CountRefs(counter, names) ==
    IF names = <<>> THEN counter
    ELSE CountRefs(Increment(counter, Head(names)), Tail(names))

InsertBeforeTies(sorted, item) ==
    LET k == Cardinality({i \in 1..Len(sorted) : sorted[i].count > item.count})
    IN  SubSeq(sorted, 1, k) \o <<item>> \o SubSeq(sorted, k + 1, Len(sorted))

\* one step of the stable descending sort behind most_common: the item goes
\* after every item whose count is at least its own
InsertByCount(sorted, item) ==
    LET k == Cardinality({i \in 1..Len(sorted) : sorted[i].count >= item.count})
    IN  SubSeq(sorted, 1, k) \o <<item>> \o SubSeq(sorted, k + 1, Len(sorted))

RECURSIVE SortedByCount(_)
SortedByCount(items) ==
    IF items = <<>> THEN <<>>
    ELSE InsertByCount(SortedByCount(SubSeq(items, 1, Len(items) - 1)), items[Len(items)])

\* Counter.most_common(n), kept in that order by dict()
most_common(counter, n) ==
    LET sorted == SortedByCount(counter)
    IN  SubSeq(sorted, 1, IF Len(sorted) < n THEN Len(sorted) ELSE n)

ClassifyPrototypeFirst(fc, l, st, td) ==
    LET s1 == "Archive"
        s2 == IF td > 0 \/ l < 200 THEN "Prototype" ELSE s1
        s3 == IF (fc >= 3 /\ l >= 200) \/ st > 3 THEN "Portfolio-Ready" ELSE s2
    IN  s3

ClassifyIgnoresTodo(fc, l, st, td) ==
    LET s1 == "Archive"
        s2 == IF (fc >= 3 /\ l >= 200) \/ st > 3 THEN "Portfolio-Ready" ELSE s1
        s3 == IF l < 200 THEN "Prototype" ELSE s2
    IN  s3

\* the three assignments to status, in the order of the code
Classify(fc, l, st, td) ==
    LET s1 == "Archive"
        s2 == IF (fc >= 3 /\ l >= 200) \/ st > 3 THEN "Portfolio-Ready" ELSE s1
        s3 == IF td > 0 \/ l < 200 THEN "Prototype" ELSE s2
    IN  s3

\* analyze_repo(repo, sample_limit=8, ...): run_full_scan passes no limit
sample_limit == 8

\* lines[:40]
SnippetLines == 40

\* "\n".join(lines[:40]) of a file of n lines, as the range of lines kept
Snippet(n) == [from |-> 1, to |-> IF n < SnippetLines THEN n ELSE SnippetLines]

BudgetNeverFull(smp, limit) == TRUE

\* if len(samples) < sample_limit
BudgetOpen(smp, limit) == Len(smp) < limit

\* the path of the k-th file of the walk: the walk yields no path twice
WalkPath(k) == k

AnalyzeInit ==
    /\ stars \in StarCounts
    /\ file_count = 0
    /\ loc = 0
    /\ todo_count = 0
    /\ status = "none"
    /\ imports = <<>>
    /\ meta_imports = <<>>
    /\ walked = <<>>
    /\ repo_samples = <<>>
    /\ analyzePc = "walk"

\* one iteration of the loop over walk_repo_files: a file of `lines` lines,
\* with or without a TODO/FIXME/WIP/UNFINISHED marker, with the module
\* references of f
\* (walks of more than MaxFiles files are walks of one-line files with the
\* same module references)
AnalyzeFile(lines, hasTodo, f) ==
    /\ analyzePc = "walk"
    /\ \/ file_count < MaxFiles
       \/ /\ file_count < MaxWalk
          /\ lines = 1 /\ loc = file_count
          /\ \A i \in 1..Len(walked) : walked[i] = f
    /\ file_count' = file_count + 1
    /\ loc' = loc + lines
    /\ repo_samples' =
           IF BudgetOpen(repo_samples, sample_limit)
           THEN Append(repo_samples, [path |-> WalkPath(file_count'),
                                      snippet |-> Snippet(lines)])
           ELSE repo_samples
    /\ imports' = CountRefs(imports, ScannedNames[f])
    /\ todo_count' = IF hasTodo THEN todo_count + 1 ELSE todo_count
    /\ walked' = Append(walked, f)
    /\ UNCHANGED <<stars, status, meta_imports, analyzePc>>
    /\ UNCHANGED <<pathVars, walkVars, readmeVars, scanVars, funcVars>>

\* the walk is exhausted: the import table is stored and the status is set
AnalyzeClassify ==
    /\ analyzePc = "walk"
    /\ meta_imports' = most_common(imports, MaxImports)
    /\ status' = Classify(file_count, loc, stars, todo_count)
    /\ analyzePc' = "done"
    /\ UNCHANGED <<stars, file_count, loc, todo_count, imports, walked, repo_samples>>
    /\ UNCHANGED <<pathVars, walkVars, readmeVars, scanVars, funcVars>>

AnalyzeNext ==
    \/ \E lines \in FileLines, hasTodo \in BOOLEAN, f \in ImportFiles :
           AnalyzeFile(lines, hasTodo, f)
    \/ AnalyzeClassify

SpecAnalyzeInit == AnalyzeInit /\ PathIdle /\ WalkIdle /\ ReadmeIdle /\ ScanIdle /\ FuncIdle

SpecAnalyze == SpecAnalyzeInit /\ [][AnalyzeNext]_vars

\* C1: the status is Prototype whenever todo_count > 0 or loc < 200, else
\* Portfolio-Ready when (file_count >= 3 and loc >= 200) or stars > 3, else
\* Archive; 4 files, 250 lines, no star and no TODO give Portfolio-Ready, and
\* the same with one TODO file gives Prototype.
C1_StatusRule ==
    analyzePc = "done" =>
        /\ (todo_count > 0 \/ loc < 200) => status = "Prototype"
        /\ (~(todo_count > 0 \/ loc < 200)
              /\ ((file_count >= 3 /\ loc >= 200) \/ stars > 3))
              => status = "Portfolio-Ready"
        /\ (~(todo_count > 0 \/ loc < 200)
              /\ ~((file_count >= 3 /\ loc >= 200) \/ stars > 3))
              => status = "Archive"
        /\ (file_count = 4 /\ loc = 250 /\ stars = 0 /\ todo_count = 0)
              => status = "Portfolio-Ready"
        /\ (file_count = 4 /\ loc = 250 /\ stars = 0 /\ todo_count = 1)
              => status = "Prototype"

\* the veto: a starred repository of four files and 250 lines with one TODO
C1_Witness ==
    /\ analyzePc = "done"
    /\ file_count = 4 /\ loc = 250 /\ stars = 4 /\ todo_count = 1
    /\ status = "Prototype"

\* C14: for the file_count, loc and stars of a finished analysis, the status
\* computed with todo_count 1 is Prototype whatever the status computed with
\* todo_count 0 is: a Prototype stays Prototype, an Archive or Portfolio-Ready
\* becomes Prototype; the stored status is the one of the actual todo_count.
C14_TodoMovesToPrototype ==
    analyzePc = "done" =>
        LET without == Classify(file_count, loc, stars, 0)
            with == Classify(file_count, loc, stars, 1)
        IN  /\ without = "Prototype" => with = without
            /\ without # "Prototype" => with = "Prototype"
            /\ with \notin {"Archive", "Portfolio-Ready"}
            /\ todo_count = 0 => status = without
            /\ todo_count = 1 => status = with

\* one TODO file turns an otherwise Portfolio-Ready repository into a Prototype
C14_Witness ==
    /\ analyzePc = "done"
    /\ todo_count = 1
    /\ Classify(file_count, loc, stars, 0) = "Portfolio-Ready"
    /\ status = "Prototype"

\* the top-level names counted over the walked files, in the order seen
RECURSIVE NamesSeen(_)
NamesSeen(files) ==
    IF files = <<>> THEN <<>>
    ELSE ScannedNames[Head(files)] \o NamesSeen(Tail(files))

Occurrences(seen, name) == Cardinality({i \in 1..Len(seen) : seen[i] = name})

FirstSeen(seen, name) == CHOOSE i \in 1..Len(seen) :
    seen[i] = name /\ \A j \in 1..(i - 1) : seen[j] # name

\* C15: the import table of a finished analysis holds at most 12 names (all of
\* them when fewer were seen), each once and with its number of occurrences in
\* the scanned part of the walked files; no name left out occurs more often
\* than a listed one, a name left out that ties with a listed one was first
\* seen later, and the table lists higher counts first and, among equal
\* counts, the name first seen first.
C15_TopTwelveImports ==
    analyzePc = "done" =>
        LET seen == NamesSeen(walked)
            names == Range(seen)
            table == meta_imports
            listed == {table[i].name : i \in 1..Len(table)}
            Before(n1, c1, n2, c2) ==
                c1 > c2 \/ (c1 = c2 /\ FirstSeen(seen, n1) < FirstSeen(seen, n2))
        IN  /\ Len(table) <= MaxImports
            /\ Len(table) = (IF Cardinality(names) < MaxImports
                             THEN Cardinality(names) ELSE MaxImports)
            /\ Cardinality(listed) = Len(table)
            /\ \A i \in 1..Len(table) :
                   /\ table[i].name \in names
                   /\ table[i].count = Occurrences(seen, table[i].name)
            \* each entry comes before the next, and the last one before every
            \* name left out (Before is transitive)
            /\ \A i \in 1..(Len(table) - 1) :
                   Before(table[i].name, table[i].count,
                          table[i + 1].name, table[i + 1].count)
            /\ \A n \in names \ listed :
                   Before(table[Len(table)].name, table[Len(table)].count,
                          n, Occurrences(seen, n))

\* more than 12 names were seen and the cut falls between two names that
\* occur equally often
C15_Witness ==
    /\ analyzePc = "done"
    /\ Len(meta_imports) = MaxImports
    /\ LET seen == NamesSeen(walked)
       IN  \E n \in Range(seen) :
               /\ \A i \in 1..MaxImports : meta_imports[i].name # n
               /\ Occurrences(seen, n) = meta_imports[MaxImports].count

\* C22: the samples are the first min(n, 8) files of the walk, in walk
\* order, each cut to its first 40 lines: every file the loop takes is
\* appended to the samples while fewer than 8 are held and leaves them as
\* they are afterwards, and in both cases it is counted in file_count, its
\* lines are added to loc, its references are counted in imports and its
\* marker, if any, in todo_count.
C22_FirstComeSampling ==
    /\ [](analyzePc # "off" =>
             /\ Len(repo_samples) = (IF file_count < 8 THEN file_count ELSE 8)
             /\ \A i \in 1..Len(repo_samples) :
                    /\ repo_samples[i].path = WalkPath(i)
                    /\ repo_samples[i].snippet.from = 1
                    /\ repo_samples[i].snippet.to <= 40)
    /\ [][file_count' # file_count =>
             LET n == loc' - loc IN
             /\ file_count' = file_count + 1
             /\ n >= 1
             /\ repo_samples' =
                    IF file_count < 8
                    THEN Append(repo_samples,
                                [path |-> WalkPath(file_count'),
                                 snippet |-> [from |-> 1, to |-> IF n < 40 THEN n ELSE 40]])
                    ELSE repo_samples
             /\ Len(walked') = Len(walked) + 1
             /\ imports' = CountRefs(imports, ScannedNames[walked'[Len(walked')]])
             /\ todo_count' \in {todo_count, todo_count + 1}]_vars

\* nine one-line files, each with a marker: eight samples, and the ninth
\* file is in every count
C22_Witness ==
    /\ analyzePc = "done"
    /\ file_count = 9 /\ loc = 9 /\ todo_count = 9
    /\ Len(repo_samples) = 8
    /\ repo_samples[8].path = WalkPath(8)
    /\ imports # <<>> /\ imports[1].count = 18

(***************************************************************************)
(* Repository walker: walk_repo_files as nested generator frames over a    *)
(* repository tree served by the content provider.                         *)
(***************************************************************************)
TEXT_EXTENSIONS == {
    <<".", "p", "y">>,
    <<".", "j", "s">>,
    <<".", "t", "s">>,
    <<".", "j", "s", "x">>,
    <<".", "t", "s", "x">>,
    <<".", "j", "a", "v", "a">>,
    <<".", "c">>,
    <<".", "c", "p", "p">>,
    <<".", "m", "d">>,
    <<".", "t", "x", "t">>,
    <<".", "h", "t", "m", "l">>,
    <<".", "c", "s", "s">>,
    <<".", "j", "s", "o", "n">>,
    <<".", "y", "m", "l">>,
    <<".", "y", "a", "m", "l">>,
    <<".", "r", "s">>,
    <<".", "g", "o">>,
    <<".", "s", "h">> }

\* s.endswith(suffix)
EndsWith(s, suffix) ==
    /\ Len(s) >= Len(suffix)
    /\ \A j \in 1..Len(suffix) : s[Len(s) - Len(suffix) + j] = suffix[j]

TakesEveryFile(name) == TRUE

is_text_file(name) == \E ext \in TEXT_EXTENSIONS : EndsWith(StrLower(name), ext)

\* names of the entries of the repository tree
N_docs == <<"d", "o", "c", "s">>
N_dotgit == <<".", "g", "i", "t">>
N_a_py == <<"a", ".", "p", "y">>
N_src == <<"s", "r", "c">>
N_logo_png == <<"l", "o", "g", "o", ".", "p", "n", "g">>
N_z_md == <<"Z", ".", "M", "D">>
N_guide_md == <<"g", "u", "i", "d", "e", ".", "m", "d">>
N_lib == <<"l", "i", "b">>
N_main_py == <<"m", "a", "i", "n", ".", "p", "y">>
N_util_py == <<"u", "t", "i", "l", ".", "p", "y">>
N_config_txt == <<"c", "o", "n", "f", "i", "g", ".", "t", "x", "t">>
N_ext == <<"e", "x", "t">>

Entry(n, t) == [name |-> n, type |-> t]

\* repo.get_contents(path) of the modelled repository: directory (a sequence
\* of names) -> its entries, in the provider's order
RepoTree ==
    (<<>> :> << Entry(N_docs, "dir"), Entry(N_dotgit, "dir"), Entry(N_a_py, "file"),
                Entry(N_ext, "submodule"), Entry(N_src, "dir"),
                Entry(N_logo_png, "file"), Entry(N_z_md, "file") >>)
    @@ (<<N_docs>> :> << Entry(N_guide_md, "file") >>)
    @@ (<<N_dotgit>> :> << Entry(N_config_txt, "file") >>)
    @@ (<<N_src>> :> << Entry(N_lib, "dir"), Entry(N_main_py, "file") >>)
    @@ (<<N_src, N_lib>> :> << Entry(N_util_py, "file") >>)

\* item.path
ItemPath(segs) == Join(segs, "/")

\* outcomes of item.decoded_content followed by the two decodes
FetchOutcomes == {"utf8", "latin1", "raises"}

ListingFailurePropagates == "raise"

\* get_contents raised: the except clause returns from this frame
OnListingFailure == "return"

FetchFailurePropagates == "raise"

\* decoded_content raised: the except clause continues with the next item
OnFetchFailure == "continue"

Frame(d) == [dir |-> d, listed |-> FALSE, idx |-> 1]

Top == stack[Len(stack)]

TopItem == RepoTree[Top.dir][Top.idx]

\* the stack with the top frame's item index advanced
Advanced == [stack EXCEPT ![Len(stack)].idx = @ + 1]

Popped == SubSeq(stack, 1, Len(stack) - 1)

PcAfter(stk) == IF Len(stk) = 0 THEN "done" ELSE "run"

WalkInit ==
    /\ stack = << Frame(<<>>) >>
    /\ yielded = <<>>
    /\ skipped_dirs = 0
    /\ skipped_files = 0
    /\ failedDirs = {}
    /\ failedFiles = {}
    /\ walkPc = "run"

\* contents = repo.get_contents(path), inside try/except
WalkList(ok) ==
    /\ walkPc = "run"
    /\ ~Top.listed
    /\ IF ok
       THEN /\ stack' = [stack EXCEPT ![Len(stack)].listed = TRUE]
            /\ walkPc' = "run"
            /\ UNCHANGED failedDirs
       ELSE /\ failedDirs' = failedDirs \cup {Top.dir}
            /\ IF OnListingFailure = "return"
               THEN stack' = Popped /\ walkPc' = PcAfter(Popped)
               ELSE stack' = <<>> /\ walkPc' = "raised"
    /\ UNCHANGED <<yielded, skipped_dirs, skipped_files, failedFiles>>
    /\ UNCHANGED <<pathVars, analyzeVars, readmeVars, scanVars, funcVars>>

\* item.type == "dir"
WalkDir ==
    /\ walkPc = "run"
    /\ Top.listed /\ Top.idx <= Len(RepoTree[Top.dir])
    /\ TopItem.type = "dir"
    /\ LET sub == Append(Top.dir, TopItem.name) IN
       IF should_skip_path(ItemPath(sub))
       THEN /\ skipped_dirs' = skipped_dirs + 1
            /\ stack' = Advanced
       ELSE /\ stack' = Append(Advanced, Frame(sub))
            /\ UNCHANGED skipped_dirs
    /\ UNCHANGED <<yielded, skipped_files, failedDirs, failedFiles, walkPc>>
    /\ UNCHANGED <<pathVars, analyzeVars, readmeVars, scanVars, funcVars>>

\* item.type == "file"
WalkFile(outcome) ==
    /\ walkPc = "run"
    /\ Top.listed /\ Top.idx <= Len(RepoTree[Top.dir])
    /\ TopItem.type = "file"
    /\ LET file == Append(Top.dir, TopItem.name) IN
       IF should_skip_path(ItemPath(file))
       THEN /\ skipped_files' = skipped_files + 1
            /\ stack' = Advanced
            /\ UNCHANGED <<yielded, failedFiles, walkPc>>
       ELSE IF ~is_text_file(TopItem.name)
       THEN /\ stack' = Advanced
            /\ UNCHANGED <<yielded, skipped_files, failedFiles, walkPc>>
       ELSE IF outcome = "raises"
       THEN /\ failedFiles' = failedFiles \cup {file}
            /\ IF OnFetchFailure = "continue"
               THEN stack' = Advanced /\ walkPc' = "run"
               ELSE stack' = <<>> /\ walkPc' = "raised"
            /\ UNCHANGED <<yielded, skipped_files>>
       ELSE /\ yielded' = Append(yielded, [path |-> ItemPath(file), decoded |-> outcome])
            /\ stack' = Advanced
            /\ UNCHANGED <<skipped_files, failedFiles, walkPc>>
    /\ UNCHANGED <<skipped_dirs, failedDirs>>
    /\ UNCHANGED <<pathVars, analyzeVars, readmeVars, scanVars, funcVars>>

\* an entry that is neither a directory nor a file (symlink, submodule)
WalkOther ==
    /\ walkPc = "run"
    /\ Top.listed /\ Top.idx <= Len(RepoTree[Top.dir])
    /\ TopItem.type \notin {"dir", "file"}
    /\ stack' = Advanced
    /\ UNCHANGED <<yielded, skipped_dirs, skipped_files, failedDirs, failedFiles, walkPc>>
    /\ UNCHANGED <<pathVars, analyzeVars, readmeVars, scanVars, funcVars>>

\* the for loop of one frame is exhausted
WalkReturn ==
    /\ walkPc = "run"
    /\ Top.listed /\ Top.idx > Len(RepoTree[Top.dir])
    /\ stack' = Popped
    /\ walkPc' = PcAfter(Popped)
    /\ UNCHANGED <<yielded, skipped_dirs, skipped_files, failedDirs, failedFiles>>
    /\ UNCHANGED <<pathVars, analyzeVars, readmeVars, scanVars, funcVars>>

WalkNext ==
    \/ \E ok \in BOOLEAN : WalkList(ok)
    \/ WalkDir
    \/ \E outcome \in FetchOutcomes : WalkFile(outcome)
    \/ WalkOther
    \/ WalkReturn

SpecWalkInit == WalkInit /\ PathIdle /\ AnalyzeIdle /\ ReadmeIdle /\ ScanIdle /\ FuncIdle

SpecWalk == SpecWalkInit /\ [][WalkNext]_vars

\* the files of the tree: every path (a sequence of names) of a file entry
RECURSIVE FilesUnder(_)
FilesUnder(d) ==
    UNION { LET e == RepoTree[d][i] IN
            IF e.type = "file" THEN {Append(d, e.name)}
            ELSE IF e.type = "dir" THEN FilesUnder(Append(d, e.name))
            ELSE {}
          : i \in 1..Len(RepoTree[d]) }

Prefixes(f) == {SubSeq(f, 1, n) : n \in 0..(Len(f) - 1)}

\* a file the walk has to yield: a text file, not skipped, below no skipped
\* directory, whose fetch did not fail and none of whose directories failed
\* to list
Reachable(f) ==
    /\ is_text_file(f[Len(f)])
    /\ ~should_skip_path(ItemPath(f))
    /\ \A d \in Prefixes(f) : d = <<>> \/ ~should_skip_path(ItemPath(d))
    /\ f \notin failedFiles
    /\ \A d \in Prefixes(f) : d \notin failedDirs

YieldedPaths == {yielded[i].path : i \in 1..Len(yielded)}

\* C7: a failed directory listing or a failed content fetch ends only that
\* branch: the walk never raises, and once it is over every readable,
\* non-skipped text file outside the failed directories has been yielded.
C7_FailureEndsBranchOnly ==
    /\ walkPc # "raised"
    /\ walkPc = "done" =>
          \A f \in FilesUnder(<<>>) : Reachable(f) => ItemPath(f) \in YieldedPaths

\* docs failed to list and a.py failed to fetch, yet the later siblings
\* src/main.py and Z.MD were yielded
C7_Witness ==
    /\ walkPc = "done"
    /\ <<N_docs>> \in failedDirs
    /\ <<N_a_py>> \in failedFiles
    /\ ItemPath(<<N_src, N_main_py>>) \in YieldedPaths
    /\ ItemPath(<<N_z_md>>) \in YieldedPaths

\* the directories whose listing was obtained: neither they nor a directory
\* above them failed to list, and no directory on the way is skipped
WasListed(d) ==
    /\ d \notin failedDirs
    /\ \A p \in Prefixes(d) : p \notin failedDirs
    /\ \A n \in 1..Len(d) : ~should_skip_path(ItemPath(SubSeq(d, 1, n)))

\* the entries of a given type the walk was shown, as full paths
ListedEntries(type) ==
    UNION { {Append(d, RepoTree[d][i].name) :
                i \in {k \in 1..Len(RepoTree[d]) : RepoTree[d][k].type = type}}
            : d \in {x \in DOMAIN RepoTree : WasListed(x)} }

BelowSkipped(f) ==
    \E n \in 1..(Len(f) - 1) : should_skip_path(ItemPath(SubSeq(f, 1, n)))

HasTextExtension(name) ==
    \E ext \in TEXT_EXTENSIONS : EndsWith(StrLower(name), ext)

\* the files whose content was asked for: the yielded ones and the failed ones
Fetched == YieldedPaths \cup {ItemPath(f) : f \in failedFiles}

\* C19: no frame of the walk is in or below a skipped directory, and nothing
\* in or below one is fetched; a file without a recognized extension is never
\* fetched; after the walk skipped_dirs is the number of listed directory
\* entries the filter rejects and skipped_files the number of listed file
\* entries it rejects, so that files of other extensions and everything
\* below a skipped directory leave both counters alone.
C19_WalkCounters ==
    /\ \A k \in 1..Len(stack) :
           \A n \in 1..Len(stack[k].dir) :
               ~should_skip_path(ItemPath(SubSeq(stack[k].dir, 1, n)))
    /\ \A f \in FilesUnder(<<>>) :
           (BelowSkipped(f) \/ ~HasTextExtension(f[Len(f)])) => ItemPath(f) \notin Fetched
    /\ walkPc = "done" =>
           /\ skipped_dirs =
                  Cardinality({d \in ListedEntries("dir") : should_skip_path(ItemPath(d))})
           /\ skipped_files =
                  Cardinality({f \in ListedEntries("file") : should_skip_path(ItemPath(f))})

\* a complete walk that skipped .git and src/lib/util.py, dropped logo.png
\* and yielded the file after it
C19_Witness ==
    /\ walkPc = "done"
    /\ skipped_dirs = 1 /\ skipped_files = 1
    /\ failedDirs = {} /\ failedFiles = {}
    /\ ItemPath(<<N_logo_png>>) \notin Fetched
    /\ ItemPath(<<N_z_md>>) \in YieldedPaths

\* C16 as stated: each failed directory listing and each failed content fetch
\* leaves the walk running and is counted in the statistics accumulator (one
\* of the counters of stats goes up in that step).
C16_FetchFailuresCounted ==
    [][(failedDirs' # failedDirs \/ failedFiles' # failedFiles) =>
           /\ walkPc' # "raised"
           /\ skipped_dirs' + skipped_files' > skipped_dirs + skipped_files]_vars

(***************************************************************************)
(* README synthesizer: generate_portfolio_readme renders a feature record  *)
(* into an ordered list of sections, with an optional AI-written           *)
(* description.                                                            *)
(***************************************************************************)
\* Python's None
NoneValue == "<None>"

\* not x, for x a string or None
Falsy(x) == x = NoneValue \/ x = ""

DEFAULT_DESCRIPTION == "A software project showcasing development skills"

DEFAULT_LANGUAGE == "Multiple"

STDLIB_IMPORTS == {"os", "sys", "json", "time", "datetime"}

FOOTER_AI == "auto-generated with AI assistance"

FOOTER_PLAIN == "auto-generated"

\* an AI description has to be longer than this many characters
MinAiLen == 20

\* s[:n]
Take(s, n) == SubSeq(s, 1, IF Len(s) < n THEN Len(s) ELSE n)

IsSpace(c) == c \in {" ", "\t", "\n"}

\* str.strip()
RECURSIVE StripLeft(_)
StripLeft(s) == IF s # <<>> /\ IsSpace(Head(s)) THEN StripLeft(Tail(s)) ELSE s

RECURSIVE StripRight(_)
StripRight(s) ==
    IF s # <<>> /\ IsSpace(s[Len(s)]) THEN StripRight(SubSeq(s, 1, Len(s) - 1)) ELSE s

Strip(s) == StripRight(StripLeft(s))

\* bl.lower() for the business-logic labels
LowerLabel(l) ==
    CASE l = "Email sending capability" -> "email sending capability"
      [] l = "Payment processing" -> "payment processing"
      [] l = "Webhook handling" -> "webhook handling"
      [] l = "File upload functionality" -> "file upload functionality"
      [] l = "Background task scheduling" -> "background task scheduling"
      [] l = "User authentication" -> "user authentication"
      [] l = "User registration" -> "user registration"
      [] OTHER -> l

\* tech_stack.append(x) for every x of xs that is neither in it nor excluded
RECURSIVE AppendNew(_, _, _)
AppendNew(stackList, xs, excluded) ==
    IF xs = <<>> THEN stackList
    ELSE IF Head(xs) \in Range(stackList) \/ Head(xs) \in excluded
         THEN AppendNew(stackList, Tail(xs), excluded)
         ELSE AppendNew(Append(stackList, Head(xs)), Tail(xs), excluded)

Desc(meta) == IF Falsy(meta.description) THEN DEFAULT_DESCRIPTION ELSE meta.description

Lang(meta) == IF Falsy(meta.language) THEN DEFAULT_LANGUAGE ELSE meta.language

TechStack(meta) ==
    LET s1 == IF ~Falsy(Lang(meta)) THEN <<Lang(meta)>> ELSE <<>>
        s2 == AppendNew(s1, meta.features.frameworks, {})
    IN  AppendNew(s2, Take(meta.imports, 5), STDLIB_IMPORTS)

\* one sentence of the description
Part(c, xs) == [clause |-> c, items |-> xs]

\* description_parts: the deterministic description, sentence by sentence
FullDescription(meta) ==
    LET f == meta.features
        business_logic == f.functionality.business_logic
        endpoints == f.functionality.endpoints
        first == IF f.app_type # <<>> THEN Part("app type", <<f.app_type[1]>>)
                 ELSE IF ~Falsy(Desc(meta)) THEN Part("description", <<Desc(meta)>>)
                 ELSE Part("application", <<Lang(meta)>>)
        caps == IF business_logic # <<>>
                THEN << Part("Implements",
                             [i \in 1..Len(Take(business_logic, 4)) |->
                                 LowerLabel(business_logic[i])]) >>
                ELSE <<>>
        eps == IF endpoints # <<>>
               THEN << Part(IF Len(endpoints) > 1 THEN "Exposes API endpoints"
                            ELSE "Exposes API endpoint", <<Len(endpoints)>>) >>
               ELSE <<>>
        stack_parts == (IF f.database # <<>> THEN <<f.database[1]>> ELSE <<>>)
                       \o Take(f.apis, 2)
        built == IF stack_parts # <<>> THEN << Part("Built with", stack_parts) >> ELSE <<>>
        dep == IF f.deployment # <<>>
               THEN << Part("Deployed to", <<f.deployment[1]>>) >> ELSE <<>>
    IN  <<first>> \o caps \o eps \o built \o dep

AcceptsAnyText(ai_desc) == ai_desc # <<>>

\* if ai_desc and len(ai_desc) > 20
AcceptsAiText(ai_desc) == ai_desc # <<>> /\ Len(ai_desc) > MinAiLen

\* if OPENAI_AVAILABLE and openai_key
UsesAi(avail, key) == avail /\ ~Falsy(key)

\* the try block around the enhancement service: any exception (the client
\* cannot be built, the request fails, the reply has no choice or no text)
\* keeps the deterministic description
Enhance(full, avail, key, outcome) ==
    IF UsesAi(avail, key)
    THEN IF outcome.kind = "text" /\ AcceptsAiText(Strip(outcome.content))
         THEN [text |-> Strip(outcome.content), ai_used |-> TRUE, called |-> TRUE]
         ELSE [text |-> full, ai_used |-> FALSE, called |-> TRUE]
    ELSE [text |-> full, ai_used |-> FALSE, called |-> FALSE]

Sec(k, t) == [kind |-> k, text |-> t]

Badges(meta) ==
    (IF meta.stars > 0 THEN << <<"stars", meta.stars>> >> ELSE <<>>)
    \o (IF ~Falsy(Lang(meta)) THEN << <<"language", Lang(meta)>> >> ELSE <<>>)
    \o << <<"status", meta.status>> >>

EmittedAnyway(present, section) == <<section>>

\* a section appended under an if
Optional(present, section) == IF present THEN <<section>> ELSE <<>>

\* the sections, in the order they are appended; capOrder is the order in
\* which list(set(business_logic)) enumerates the labels
Sections(meta, description, capOrder) ==
    LET f == meta.features
        business_logic == f.functionality.business_logic
        endpoints == f.functionality.endpoints
        user_flows == f.functionality.user_flows
    IN  << Sec("title", meta.name) >>
        \o << Sec("description", [ai |-> description.ai_used, text |-> description.text]) >>
        \o << Sec("badges", Badges(meta)) >>
        \o Optional(user_flows # <<>>, Sec("user experience", Take(user_flows, 8)))
        \o Optional(business_logic # <<>> \/ endpoints # <<>>,
                    Sec("functionality",
                        [capabilities |-> IF business_logic # <<>>
                                          THEN Take(capOrder, 5) ELSE <<>>,
                         endpoints |-> Take(endpoints, 6),
                         more |-> IF Len(endpoints) > 6 THEN Len(endpoints) - 6 ELSE 0]))
        \o Optional(\/ f.app_type # <<>> \/ f.apis # <<>> \/ f.database # <<>>
                    \/ f.auth # <<>> \/ f.notable_features # <<>>,
                    Sec("key features",
                        [app_type |-> f.app_type, apis |-> f.apis, database |-> f.database,
                         auth |-> f.auth, notable |-> f.notable_features]))
        \o Optional(TechStack(meta) # <<>>, Sec("tech stack", Take(TechStack(meta), 8)))
        \o Optional(f.deployment # <<>>, Sec("deployment", f.deployment))
        \o << Sec("project statistics",
                  [file_count |-> meta.file_count, loc |-> meta.loc,
                   language |-> Lang(meta), status |-> meta.status]) >>
        \o << Sec("footer", IF description.ai_used THEN FOOTER_AI ELSE FOOTER_PLAIN) >>

\* the whole function: the returned document and whether the service was called
generate_portfolio_readme(meta, key, avail, outcome, capOrder) ==
    LET description == Enhance(FullDescription(meta), avail, key, outcome)
    IN  [doc |-> Sections(meta, description, capOrder), called |-> description.called]

\* every enumeration order of a finite set
SetOrders(S) == {o \in [1..Cardinality(S) -> S] : Range(o) = S}

(***************************************************************************)
(* The feature records and service replies the synthesizer is run on.      *)
(***************************************************************************)
Spaces(n) == [i \in 1..n |-> " "]

Letters(n) == [i \in 1..n |-> "x"]

\* replies of 0, 20 and 21 characters, bare and wrapped in white space
SvcTexts == {Spaces(p) \o Letters(n) \o Spaces(p) : p \in {0, 1}, n \in {0, 20, 21}}

SvcOutcomes ==
    {[kind |-> "raises", content |-> <<>>], [kind |-> "malformed", content |-> <<>>]}
    \cup {[kind |-> "text", content |-> c] : c \in SvcTexts}

NotCalled == [kind |-> "none", content |-> <<>>]

Flask == [path |-> "/login", framework |-> "Flask"]

FastApi == [path |-> "/items", framework |-> "FastAPI"]

Functionalities ==
    [business_logic : {<<>>, <<"User authentication">>},
     endpoints : {<<>>, <<Flask>>, <<Flask, FastApi>>},
     user_flows : {<<>>, <<"Users can log in to access their account">>}]

Features ==
    [app_type : {<<>>, <<"Flask Web Application">>},
     deployment : {<<>>, <<"Heroku">>},
     database : {<<>>, <<"PostgreSQL">>},
     apis : {<<>>, <<"Stripe Payments">>},
     frameworks : {<<>>},
     auth : {<<>>},
     notable_features : {<<>>},
     functionality : Functionalities]

Metas ==
    [name : {"demo"},
     description : {"", "CLI helper"},
     language : {NoneValue, "Python"},
     stars : {0, 5},
     status : {"Prototype"},
     file_count : {4},
     loc : {250},
     imports : {<<"flask", "os">>},
     features : Features]

Keys == {NoneValue, "", "sk-test"}

ReadmeInit ==
    /\ repo_meta \in Metas
    /\ openai_key \in Keys
    /\ available \in BOOLEAN
    /\ svc = NotCalled
    /\ readme = <<>>
    /\ readmePc = "call"

\* one call of generate_portfolio_readme(repo_meta, openai_key=openai_key)
CallGenerate(outcome, capOrder) ==
    /\ readmePc = "call"
    /\ LET r == generate_portfolio_readme(repo_meta, openai_key, available, outcome, capOrder)
       IN  /\ readme' = r.doc
           /\ svc' = IF r.called THEN outcome ELSE NotCalled
    /\ readmePc' = "done"
    /\ UNCHANGED <<repo_meta, openai_key, available>>
    /\ UNCHANGED <<pathVars, analyzeVars, walkVars, scanVars, funcVars>>

ReadmeNext ==
    \E outcome \in SvcOutcomes,
       capOrder \in SetOrders(Range(repo_meta.features.functionality.business_logic)) :
        CallGenerate(outcome, capOrder)

SpecReadmeInit == ReadmeInit /\ PathIdle /\ AnalyzeIdle /\ WalkIdle /\ ScanIdle /\ FuncIdle

SpecReadme == SpecReadmeInit /\ [][ReadmeNext]_vars

SectionOf(doc, k) == doc[CHOOSE i \in 1..Len(doc) : doc[i].kind = k]

HasSection(doc, k) == \E i \in 1..Len(doc) : doc[i].kind = k

\* the service raised, gave a malformed reply, or gave a text that is empty
\* or at most 20 characters long once stripped
ServiceFailed(o) ==
    \/ o.kind \in {"raises", "malformed"}
    \/ o.kind = "text" /\ Len(Strip(o.content)) <= MinAiLen

\* C3: when the configured enhancement service raises or returns an empty or
\* too-short text, a document is still returned, its description is the
\* deterministic one and its footer is the one without AI assistance.
C3_EnhancementFallback ==
    (readmePc = "done" /\ svc.kind # "none" /\ ServiceFailed(svc)) =>
        /\ HasSection(readme, "description") /\ HasSection(readme, "footer")
        /\ SectionOf(readme, "description").text.ai = FALSE
        /\ SectionOf(readme, "description").text.text = FullDescription(repo_meta)
        /\ SectionOf(readme, "footer").text = FOOTER_PLAIN

\* the service answered 20 characters wrapped in white space
C3_Witness ==
    /\ readmePc = "done"
    /\ svc.kind = "text" /\ Len(svc.content) = 22 /\ Len(Strip(svc.content)) = 20
    /\ SectionOf(readme, "footer").text = FOOTER_PLAIN
    /\ SectionOf(readme, "description").text.text = FullDescription(repo_meta)

\* the fixed order of the sections
SectionOrder ==
    <<"title", "description", "badges", "user experience", "functionality", "key features",
      "tech stack", "deployment", "project statistics", "footer">>

OrderOf(k) == CHOOSE n \in 1..Len(SectionOrder) : SectionOrder[n] = k

\* what a conditional section shows is empty
EmptySection(s) ==
    \/ s.kind \in {"user experience", "tech stack", "deployment"} /\ s.text = <<>>
    \/ s.kind = "functionality" /\ s.text.capabilities = <<>> /\ s.text.endpoints = <<>>
    \/ s.kind = "key features"
          /\ s.text.app_type = <<>> /\ s.text.apis = <<>> /\ s.text.database = <<>>
          /\ s.text.auth = <<>> /\ s.text.notable = <<>>

\* C18: the sections of a returned document are among the ten known ones and
\* appear in the fixed order, each at most once; no conditional section is
\* emitted with empty content, a conditional section is absent when the
\* feature record has nothing for it, and the project statistics section is
\* always there.
C18_SectionOrder ==
    readmePc = "done" =>
        LET f == repo_meta.features IN
        /\ \A i \in 1..Len(readme) : readme[i].kind \in Range(SectionOrder)
        /\ \A i \in 1..Len(readme) : \A j \in (i + 1)..Len(readme) :
               OrderOf(readme[i].kind) < OrderOf(readme[j].kind)
        /\ \A i \in 1..Len(readme) : ~EmptySection(readme[i])
        /\ f.functionality.user_flows = <<>> => ~HasSection(readme, "user experience")
        /\ (f.functionality.business_logic = <<>> /\ f.functionality.endpoints = <<>>)
               => ~HasSection(readme, "functionality")
        /\ (f.app_type = <<>> /\ f.apis = <<>> /\ f.database = <<>> /\ f.auth = <<>>
               /\ f.notable_features = <<>>) => ~HasSection(readme, "key features")
        /\ f.deployment = <<>> => ~HasSection(readme, "deployment")
        /\ HasSection(readme, "project statistics")

\* a document with every section but the functionality and deployment ones
C18_Witness ==
    /\ readmePc = "done"
    /\ [i \in 1..Len(readme) |-> readme[i].kind] =
           <<"title", "description", "badges", "user experience", "key features",
             "tech stack", "project statistics", "footer">>

\* C24 as stated: the first sentence of the deterministic description is the
\* first app-type label when there is one, else the repository's own
\* description when it is not empty, else "<language> application".
C24_FirstSentence ==
    (readmePc = "done" /\ ~SectionOf(readme, "description").text.ai) =>
        LET first == SectionOf(readme, "description").text.text[1]
            f == repo_meta.features
        IN  first = (IF f.app_type # <<>> THEN Part("app type", <<f.app_type[1]>>)
                     ELSE IF ~Falsy(repo_meta.description)
                     THEN Part("description", <<repo_meta.description>>)
                     ELSE Part("application", <<Lang(repo_meta)>>))

\* C25 as stated: the key features section is in the document exactly when
\* the feature record has a classification label: an app type, a framework,
\* a deployment target, a database, an external API or an auth method.
C25_KeyFeaturesIffLabel ==
    readmePc = "done" =>
        LET f == repo_meta.features
        IN  HasSection(readme, "key features")
                <=> (\/ f.app_type # <<>> \/ f.frameworks # <<>> \/ f.deployment # <<>>
                     \/ f.database # <<>> \/ f.apis # <<>> \/ f.auth # <<>>)

(***************************************************************************)
(* run_full_scan: the driver that analyses every repository of the         *)
(* account, writes one document per repository and reports progress.       *)
(***************************************************************************)
MaxRepos == 2

\* at most this many steps of one run fail
MaxFaults == 1

App == <<"a", "p">>

MyApp == <<"m", " ", "a">>

RepoNames == {App, MyApp}

\* what the host returns for one repository
Repos == [name : RepoNames, archived : BOOLEAN, private : BOOLEAN]

RepoLists == UNION {[1..n -> Repos] : n \in 0..MaxRepos}

\* the configuration codefolio_main runs with when nothing is set
DefaultConfig ==
    [openai_key |-> NoneValue, use_ai |-> FALSE, auto_commit |-> FALSE, dry_run |-> TRUE,
     include_private |-> TRUE]

\* every setting of the key, use_ai, auto_commit and dry_run; private
\* repositories are excluded in the otherwise default configuration
Configs ==
    {c \in [openai_key : {NoneValue, "sk-test"}, use_ai : BOOLEAN, auto_commit : BOOLEAN,
            dry_run : BOOLEAN, include_private : BOOLEAN] :
        ~c.include_private => c = [DefaultConfig EXCEPT !.include_private = FALSE]}

\* no observer, or one that takes each event and then raises; one that
\* returns instead gives the same run as long as the exception is discarded
Observers == {"none", "raises"}

Ev(stage, pct, i, note) == [stage |-> stage, pct |-> pct, idx |-> i, note |-> note]

\* send_progress: the observer, if there is one, is called once per event
send_progress(cb, log, evs) == IF cb = "none" THEN log ELSE log \o evs

SendProgressUnguarded(cb) == cb = "raises"

\* send_progress wraps the call in try/except Exception: pass, so an
\* exception of the observer never leaves it
send_progress_raises(cb) == FALSE

IgnoresUseAi(cfg) == cfg.openai_key

\* effective_openai_key = openai_key if use_ai else None
effective_openai_key(cfg) == IF cfg.use_ai THEN cfg.openai_key ELSE NoneValue

\* repo_pct = int((idx+1)/total_repos*100)
repo_pct(i, total) == (i * 100) \div total

\* f"{repo.name.replace(' ','_')}.md"
Filename(name) == ReplaceChar(name, " ", "_") \o <<".", "m", "d">>

Filenames == {Filename(n) : n \in RepoNames}

KeepsArchived(r, include_private) == ~(~include_private /\ r.private)

\* the filter loop's two tests: private repositories when they are excluded,
\* and archived ones
Kept(r, include_private) == ~(~include_private /\ r.private) /\ ~r.archived

\* the filter loop: filtered_repos
FilterRepos(rs, include_private) ==
    LET kept == SelectSeq(rs, LAMBDA r : Kept(r, include_private))
    IN  [i \in 1..Len(kept) |-> kept[i].name]

\* the filter loop: one skip_repo event per archived repository it reaches
SkipEvents(rs, include_private) ==
    LET arch == SelectSeq(rs, LAMBDA r : ~(~include_private /\ r.private) /\ r.archived)
    IN  [i \in 1..Len(arch) |-> Ev("skip_repo", 0, 0, arch[i].name)]

\* what analyze_repo returns for a repository with text files
ScanMeta(name) ==
    [name |-> name, description |-> "CLI helper", language |-> "Python", stars |-> 0,
     status |-> "Prototype", file_count |-> 4, loc |-> 150, imports |-> <<"flask", "os">>,
     features |-> [app_type |-> <<"Flask Web Application">>, deployment |-> <<>>,
                   database |-> <<>>, apis |-> <<>>, frameworks |-> <<>>, auth |-> <<>>,
                   notable_features |-> <<>>,
                   functionality |-> [business_logic |-> <<"User authentication">>,
                                      endpoints |-> <<Flask>>, user_flows |-> <<>>]]]

\* the events analyze_repo delivers for a repository without / with files
AnalyzeEvents(result) ==
    << Ev("analyze_repo.start", 0, idx, "") >>
    \o (IF result = "raises" THEN <<>>
        ELSE << Ev("analyze_features", 60, idx, "") >>
             \o (IF result = "files" THEN << Ev("features_found", 70, idx, "") >> ELSE <<>>)
             \o << Ev("analyze_repo.done", 100, idx, "") >>)

\* the service's behaviour during a scan: it raises or answers a usable text
ScanSvcOutcomes ==
    {[kind |-> "raises", content |-> <<>>], [kind |-> "text", content |-> Letters(MinAiLen + 1)]}

Absent == [state |-> "absent", doc |-> <<>>]

Truncated == [state |-> "empty", doc |-> <<>>]

Partial == [state |-> "partial", doc |-> <<>>]

Whole(doc) == [state |-> "whole", doc |-> doc]

Total == Len(filtered_repos)

Pct == repo_pct(idx, Total)

Report(evs) == events' = send_progress(progress_callback, events, evs)

SetEnd(end) == history' = [history EXCEPT ![idx].end = end]

FaultEnds == {"analysis", "generation", "open", "write", "commit"}

\* the environment may still make a step fail
MayFail == Cardinality({i \in DOMAIN history : history[i].end \in FaultEnds}) < MaxFaults

\* the exception of the observer leaves run_full_scan
ObserverAbort ==
    /\ scanPc' = "observer_raised"
    /\ UNCHANGED <<config, progress_callback, OPENAI_AVAILABLE, filtered_repos, idx, events,
                   disk, scan_meta, readme_content, history, aiCalls, commitCalls, writes>>

BreaksAfterError(i, total) == total + 1

\* except Exception as e: send_progress(..., "error", ...); continue
AfterError(i, total) == i + 1

SkipsRepo(i) == i + 2

\* for idx, repo in enumerate(filtered_repos): the end of the body, or its
\* continue, takes the loop to the following repository
NextRepo(i) == i + 1

\* the handler of the loop body: one error event, then the next repository
HandleError(end, evs) ==
    /\ Report(evs \o << Ev("error", Pct, idx, end) >>)
    /\ SetEnd(end)
    /\ idx' = AfterError(idx, Total)
    /\ scanPc' = "repo"

ScanInit ==
    /\ config \in Configs
    /\ progress_callback \in Observers
    /\ OPENAI_AVAILABLE \in BOOLEAN
    /\ filtered_repos = <<>>
    /\ idx = 0
    /\ events = <<>>
    /\ disk = [f \in Filenames |-> Absent]
    /\ scan_meta = "none"
    /\ readme_content = <<>>
    /\ history = <<>>
    /\ aiCalls = 0
    /\ commitCalls = <<>>
    /\ writes = <<>>
    /\ scanPc = "start"

\* the output directory is made and the init event sent
StartScan ==
    /\ scanPc = "start"
    /\ IF send_progress_raises(progress_callback) THEN ObserverAbort
       ELSE /\ Report(<< Ev("init", 0, 0, "") >>)
            /\ scanPc' = "fetch"
            /\ UNCHANGED <<config, progress_callback, OPENAI_AVAILABLE, filtered_repos, idx,
                           disk, scan_meta, readme_content, history, aiCalls, commitCalls,
                           writes>>
    /\ UNCHANGED <<pathVars, analyzeVars, walkVars, readmeVars, funcVars>>

\* the repository list cannot be fetched: the exception leaves run_full_scan
FetchFails ==
    /\ scanPc = "fetch"
    /\ scanPc' = "aborted"
    /\ UNCHANGED <<config, progress_callback, OPENAI_AVAILABLE, filtered_repos, idx, events,
                   disk, scan_meta, readme_content, history, aiCalls, commitCalls, writes>>
    /\ UNCHANGED <<pathVars, analyzeVars, walkVars, readmeVars, funcVars>>

\* the repository list is fetched and filtered, scan_start is sent
FetchRepos(all_repos) ==
    /\ scanPc = "fetch"
    /\ IF send_progress_raises(progress_callback) THEN ObserverAbort
       ELSE /\ filtered_repos' = FilterRepos(all_repos, config.include_private)
            /\ Report(SkipEvents(all_repos, config.include_private)
                      \o << Ev("scan_start", 0, 0, "") >>)
            /\ idx' = 1
            /\ scanPc' = "repo"
            /\ UNCHANGED <<config, progress_callback, OPENAI_AVAILABLE, disk, scan_meta,
                           readme_content, history, aiCalls, commitCalls, writes>>
    /\ UNCHANGED <<pathVars, analyzeVars, walkVars, readmeVars, funcVars>>

\* the head of one iteration: scan_repo outside the try, analyzing inside
ScanRepo ==
    /\ scanPc = "repo" /\ idx <= Total
    /\ IF send_progress_raises(progress_callback) THEN ObserverAbort
       ELSE /\ Report(<< Ev("scan_repo", Pct, idx, ""), Ev("analyzing", Pct, idx, "") >>)
            /\ history' = Append(history, [end |-> "running", reply |-> NotCalled])
            /\ scanPc' = "analyze"
            /\ UNCHANGED <<config, progress_callback, OPENAI_AVAILABLE, filtered_repos, idx,
                           disk, scan_meta, readme_content, aiCalls, commitCalls, writes>>
    /\ UNCHANGED <<pathVars, analyzeVars, walkVars, readmeVars, funcVars>>

\* meta = analyze_repo(repo, ...), the empty check and the generating events
AnalyzeRepo(result) ==
    /\ scanPc = "analyze"
    /\ result = "raises" => MayFail
    /\ IF send_progress_raises(progress_callback) THEN ObserverAbort
       ELSE /\ CASE result = "raises" ->
                        /\ HandleError("analysis", AnalyzeEvents(result))
                        /\ UNCHANGED scan_meta
                 [] result = "empty" ->
                        /\ Report(AnalyzeEvents(result) \o << Ev("skip_empty", Pct, idx, "") >>)
                        /\ SetEnd("empty")
                        /\ idx' = NextRepo(idx)
                        /\ scanPc' = "repo"
                        /\ UNCHANGED scan_meta
                 [] result = "files" ->
                        /\ Report(AnalyzeEvents(result)
                                  \o << Ev("generating", Pct, idx, "") >>
                                  \o (IF OPENAI_AVAILABLE
                                         /\ ~Falsy(effective_openai_key(config))
                                      THEN << Ev("ai_enhance", Pct, idx, "") >> ELSE <<>>))
                        /\ scan_meta' = ScanMeta(filtered_repos[idx])
                        /\ scanPc' = "generate"
                        /\ UNCHANGED <<history, idx>>
            /\ UNCHANGED <<config, progress_callback, OPENAI_AVAILABLE, filtered_repos, disk,
                           readme_content, aiCalls, commitCalls, writes>>
    /\ UNCHANGED <<pathVars, analyzeVars, walkVars, readmeVars, funcVars>>

\* generate_portfolio_readme raises
GenerateFails ==
    /\ scanPc = "generate"
    /\ MayFail
    /\ IF send_progress_raises(progress_callback) THEN ObserverAbort
       ELSE /\ HandleError("generation", <<>>)
            /\ UNCHANGED <<config, progress_callback, OPENAI_AVAILABLE, filtered_repos, disk,
                           scan_meta, readme_content, aiCalls, commitCalls, writes>>
    /\ UNCHANGED <<pathVars, analyzeVars, walkVars, readmeVars, funcVars>>

\* readme_content = generate_portfolio_readme(meta, openai_key=effective_openai_key),
\* then the saving event
GenerateReadme(outcome) ==
    /\ scanPc = "generate"
    /\ IF send_progress_raises(progress_callback) THEN ObserverAbort
       ELSE LET r == generate_portfolio_readme(scan_meta, effective_openai_key(config),
                         OPENAI_AVAILABLE, outcome,
                         scan_meta.features.functionality.business_logic)
            IN  /\ readme_content' = r.doc
                /\ aiCalls' = IF r.called THEN aiCalls + 1 ELSE aiCalls
                /\ history' = [history EXCEPT
                                  ![idx].reply = IF r.called THEN outcome ELSE NotCalled]
                /\ Report(<< Ev("saving", Pct, idx, "") >>)
                /\ scanPc' = "open"
                /\ UNCHANGED <<config, progress_callback, OPENAI_AVAILABLE, filtered_repos,
                               idx, disk, scan_meta, commitCalls, writes>>
    /\ UNCHANGED <<pathVars, analyzeVars, walkVars, readmeVars, funcVars>>

\* with open(filename, "w", encoding="utf-8") as f: the file is created or
\* truncated in place
WriteOpen(ok) ==
    /\ scanPc = "open"
    /\ ~ok => MayFail
    /\ IF ok
       THEN /\ disk' = [disk EXCEPT ![Filename(filtered_repos[idx])] = Truncated]
            /\ scanPc' = "write"
            /\ UNCHANGED <<idx, events, history>>
       ELSE IF send_progress_raises(progress_callback)
            THEN /\ scanPc' = "observer_raised"
                 /\ UNCHANGED <<idx, events, history, disk>>
            ELSE /\ HandleError("open", <<>>)
                 /\ UNCHANGED disk
    /\ UNCHANGED <<config, progress_callback, OPENAI_AVAILABLE, filtered_repos, scan_meta,
                   readme_content, aiCalls, commitCalls, writes>>
    /\ UNCHANGED <<pathVars, analyzeVars, walkVars, readmeVars, funcVars>>

\* f.write(readme_content) and the close of the file
WriteData(ok) ==
    /\ scanPc = "write"
    /\ ~ok => MayFail
    /\ IF ok
       THEN /\ disk' = [disk EXCEPT ![Filename(filtered_repos[idx])] = Whole(readme_content)]
            /\ writes' = Append(writes, [file |-> Filename(filtered_repos[idx]),
                                         doc |-> readme_content])
            /\ scanPc' = "commit"
            /\ UNCHANGED <<idx, events, history>>
       ELSE /\ disk' = [disk EXCEPT ![Filename(filtered_repos[idx])] = Partial]
            /\ UNCHANGED writes
            /\ IF send_progress_raises(progress_callback)
               THEN /\ scanPc' = "observer_raised"
                    /\ UNCHANGED <<idx, events, history>>
               ELSE HandleError("write", <<>>)
    /\ UNCHANGED <<config, progress_callback, OPENAI_AVAILABLE, filtered_repos, scan_meta,
                   readme_content, aiCalls, commitCalls>>
    /\ UNCHANGED <<pathVars, analyzeVars, walkVars, readmeVars, funcVars>>

\* commit_readme_to_repo catches every exception itself and returns False
commit_readme_to_repo(commitOk) == commitOk

CommitIgnoresDryRun(cfg) == cfg.auto_commit

\* if auto_commit and not dry_run
CommitEnabled(cfg) == cfg.auto_commit /\ ~cfg.dry_run

\* the optional commit, the commit status and the repo_complete event
FinishRepo(commitOk) ==
    /\ scanPc = "commit"
    /\ ~commitOk => (CommitEnabled(config) /\ MayFail)
    /\ IF send_progress_raises(progress_callback) THEN ObserverAbort
       ELSE /\ IF CommitEnabled(config)
               THEN LET success == commit_readme_to_repo(commitOk)
                    IN  /\ commitCalls' = Append(commitCalls, idx)
                        /\ Report(<< Ev("committing", Pct, idx, ""),
                                     Ev("repo_complete", Pct, idx,
                                        IF success THEN "Committed to GitHub"
                                        ELSE "GitHub commit failed") >>)
                        /\ SetEnd(IF success THEN "complete" ELSE "commit")
               ELSE /\ UNCHANGED commitCalls
                    /\ Report(<< Ev("repo_complete", Pct, idx,
                                    IF config.dry_run THEN "(dry run)" ELSE "") >>)
                    /\ SetEnd("complete")
            /\ idx' = NextRepo(idx)
            /\ scanPc' = "repo"
            /\ UNCHANGED <<config, progress_callback, OPENAI_AVAILABLE, filtered_repos, disk,
                           scan_meta, readme_content, aiCalls, writes>>
    /\ UNCHANGED <<pathVars, analyzeVars, walkVars, readmeVars, funcVars>>

\* after the loop: the complete event
CompleteScan ==
    /\ scanPc = "repo" /\ idx > Total
    /\ IF send_progress_raises(progress_callback) THEN ObserverAbort
       ELSE /\ Report(<< Ev("complete", 100, 0, "") >>)
            /\ scanPc' = "done"
            /\ UNCHANGED <<config, progress_callback, OPENAI_AVAILABLE, filtered_repos, idx,
                           disk, scan_meta, readme_content, history, aiCalls, commitCalls,
                           writes>>
    /\ UNCHANGED <<pathVars, analyzeVars, walkVars, readmeVars, funcVars>>

\* the process is terminated while the scan is running: only the output
\* directory survives
Kill ==
    /\ scanPc \in {"fetch", "repo", "analyze", "generate", "open", "write", "commit"}
    /\ scanPc' = "killed"
    /\ config' = "none"
    /\ progress_callback' = "none"
    /\ OPENAI_AVAILABLE' = FALSE
    /\ filtered_repos' = <<>>
    /\ idx' = 0
    /\ events' = <<>>
    /\ scan_meta' = "none"
    /\ readme_content' = <<>>
    /\ history' = <<>>
    /\ aiCalls' = 0
    /\ commitCalls' = <<>>
    /\ writes' = <<>>
    /\ UNCHANGED disk
    /\ UNCHANGED <<pathVars, analyzeVars, walkVars, readmeVars, funcVars>>

ScanNext ==
    \/ StartScan
    \/ FetchFails
    \/ \E all_repos \in RepoLists : FetchRepos(all_repos)
    \/ ScanRepo
    \/ \E result \in {"raises", "empty", "files"} : AnalyzeRepo(result)
    \/ GenerateFails
    \/ \E outcome \in ScanSvcOutcomes : GenerateReadme(outcome)
    \/ \E ok \in BOOLEAN : WriteOpen(ok)
    \/ \E ok \in BOOLEAN : WriteData(ok)
    \/ \E commitOk \in BOOLEAN : FinishRepo(commitOk)
    \/ CompleteScan
    \/ Kill

SpecScanInit == ScanInit /\ PathIdle /\ AnalyzeIdle /\ WalkIdle /\ ReadmeIdle /\ FuncIdle

SpecScan == SpecScanInit /\ [][ScanNext]_vars

(***************************************************************************)
(* Properties of the driver                                                *)
(***************************************************************************)
\* the delivered events of one stage for the repository at position i
EventsOf(i, stage) == {k \in DOMAIN events : events[k].idx = i /\ events[k].stage = stage}

Running == scanPc \notin {"off", "killed"}

Observed == Running /\ progress_callback # "none"

\* when the run is done every repository of the list was taken through the
\* loop, and the last delivered event is the complete event
RunsToTheEnd ==
    scanPc = "done" =>
        /\ Len(history) = Len(filtered_repos)
        /\ \A i \in DOMAIN history : history[i].end # "running"
        /\ progress_callback # "none" => events[Len(events)].stage = "complete"

\* between two repositories the loop is at the repository after the last
\* one it handled
LoopAdvances == scanPc = "repo" => idx = Len(history) + 1

\* C2 as stated: every failure in a repository's pipeline, a failed commit
\* included, yields exactly one error event for that repository; the later
\* repositories are processed and the complete event is sent.
C2_EveryFailureIsOneError ==
    Observed =>
        /\ \A i \in DOMAIN history :
              history[i].end \in FaultEnds => Cardinality(EventsOf(i, "error")) = 1
        /\ RunsToTheEnd

\* C2: an exception raised by the analysis, the document generation or the
\* local write of a repository is caught by the driver and yields exactly one
\* error event carrying that repository's position and the failure text; a
\* failed commit is caught inside commit_readme_to_repo and yields no error
\* event but a repo_complete event; in both cases the loop goes on with the
\* next repository and the complete event is sent at the end.
C2_FailureHandling ==
    Running =>
        /\ \A i \in DOMAIN history :
              LET end == history[i].end
              IN  progress_callback # "none" =>
                    /\ end \in FaultEnds \ {"commit"} =>
                          /\ Cardinality(EventsOf(i, "error")) = 1
                          /\ \A k \in EventsOf(i, "error") :
                                events[k].note = end /\ events[k].pct = repo_pct(i, Total)
                          /\ EventsOf(i, "repo_complete") = {}
                    /\ end = "commit" =>
                          /\ EventsOf(i, "error") = {}
                          /\ Cardinality(EventsOf(i, "repo_complete")) = 1
                    /\ end \notin FaultEnds => EventsOf(i, "error") = {}
        /\ LoopAdvances
        /\ RunsToTheEnd

\* the write of the first repository failed, the second one was completed
C2_Witness ==
    /\ scanPc = "done" /\ progress_callback # "none"
    /\ Len(history) = 2
    /\ history[1].end = "write" /\ history[2].end = "complete"
    /\ Cardinality(EventsOf(1, "error")) = 1
    /\ events[Len(events)].stage = "complete"

\* C4 as stated: whenever the process is terminated during a scan, every
\* output file is absent or holds a complete document.
C4_FilesWholeOrAbsent ==
    scanPc = "killed" => \A f \in DOMAIN disk : disk[f].state \in {"absent", "whole"}

\* C5 as stated: a repository whose local write or commit failed gets a
\* repo_complete event carrying a warning, and no error event.
C5_SinkFailureIsWarning ==
    Observed =>
        \A i \in DOMAIN history :
            history[i].end \in {"open", "write", "commit"} =>
                /\ \E k \in EventsOf(i, "repo_complete") : events[k].note # ""
                /\ EventsOf(i, "error") = {}

\* the documents the finished repositories must have left, in order: those
\* of the repositories that got past the local write, each one generated
\* from the analysis, the configuration and the reply of the service
ExpectedWrites ==
    LET done == SelectSeq([i \in 1..Len(history) |-> i],
                          LAMBDA i : history[i].end \in {"complete", "commit"})
    IN  [k \in 1..Len(done) |->
            LET name == filtered_repos[done[k]]
            IN  [file |-> Filename(name),
                 doc |-> generate_portfolio_readme(ScanMeta(name),
                             effective_openai_key(config), OPENAI_AVAILABLE,
                             history[done[k]].reply,
                             ScanMeta(name).features.functionality.business_logic).doc]]

\* C6: an exception of the observer never leaves send_progress: the run never
\* ends because of the observer, and whatever the observer does the artifacts
\* written are, in order, the ones determined by the repositories, the
\* configuration and the outcomes of the environment alone.
C6_ObserverCannotAbort ==
    /\ scanPc # "observer_raised"
    /\ scanPc \in {"repo", "done"} => writes = ExpectedWrites

\* a run with an observer that raises on every call wrote two artifacts
C6_Witness ==
    /\ scanPc = "done" /\ progress_callback = "raises"
    /\ Len(events) > 0 /\ Len(writes) = 2 /\ writes[1].file # writes[2].file

\* C8: with no credential or with use_ai unset, the enhancement service is
\* never called and every document written has the deterministic description
\* and the footer without AI assistance.
C8_NoServiceWithoutKeyAndFlag ==
    (Running /\ (Falsy(config.openai_key) \/ ~config.use_ai)) =>
        /\ aiCalls = 0
        /\ \A k \in DOMAIN writes :
              LET doc == writes[k].doc
              IN  /\ SectionOf(doc, "description").text.ai = FALSE
                  /\ SectionOf(doc, "description").text.text
                        = FullDescription(ScanMeta(SectionOf(doc, "title").text))
                  /\ SectionOf(doc, "footer").text = FOOTER_PLAIN

\* a credential is configured and the service is available, but use_ai is
\* not set: two documents were written
C8_Witness ==
    /\ scanPc = "done" /\ OPENAI_AVAILABLE
    /\ ~Falsy(config.openai_key) /\ ~config.use_ai
    /\ Len(writes) = 2 /\ aiCalls = 0

\* C17: commit_readme_to_repo has been called only in a scan whose
\* configuration sets auto_commit and clears dry_run, never in one whose
\* auto_commit and dry_run are at their defaults, and each call is made when
\* the last artifact written whole is the one of the repository at hand,
\* holding the document that is committed.
C17_CommitOnlyWhenEnabled ==
    /\ [](Running /\ commitCalls # <<>> =>
             /\ config.auto_commit /\ ~config.dry_run
             /\ ~(config.auto_commit = DefaultConfig.auto_commit
                    /\ config.dry_run = DefaultConfig.dry_run))
    /\ [][Len(commitCalls') > Len(commitCalls) =>
             /\ commitCalls' = Append(commitCalls, idx)
             /\ writes # <<>>
             /\ writes[Len(writes)] = [file |-> Filename(filtered_repos[idx]),
                                       doc |-> readme_content]
             /\ disk[Filename(filtered_repos[idx])] = Whole(readme_content)]_vars

\* a scan of two repositories that committed both documents
C17_Witness ==
    /\ scanPc = "done"
    /\ commitCalls = <<1, 2>>
    /\ Len(writes) = 2

TerminalStages == {"repo_complete", "skip_empty", "error"}

\* the positions of the scan_repo events among the delivered events
Starts == {k \in DOMAIN events : events[k].stage = "scan_repo"}

\* where the part of the run that belongs to the scan_repo event at s ends:
\* at the next scan_repo event, at the complete event, or where the events
\* delivered so far end
EndOf(s) ==
    LET later == {k \in DOMAIN events :
                     k > s /\ events[k].stage \in {"scan_repo", "complete"}}
    IN  IF later = {} THEN Len(events) + 1 ELSE CHOOSE k \in later : \A m \in later : k <= m

TerminalsIn(s) == {k \in (s + 1)..(EndOf(s) - 1) : events[k].stage \in TerminalStages}

\* C26: with an observer, the scan_repo events carry the positions 1, 2, ...
\* of the filtered list in that order; between one scan_repo event and the
\* next (or the complete event) there is exactly one of repo_complete,
\* skip_empty and error, and it is that repository's; no such event comes
\* before the first scan_repo; the complete event is delivered once, as the
\* last event of a finished run, with percent 100 and after every
\* repository of the list was started.
C26_OneTerminalEventPerRepository ==
    Observed =>
        /\ \A s \in Starts :
              /\ events[s].idx = Cardinality({k \in Starts : k <= s})
              /\ events[s].idx <= Len(filtered_repos)
              /\ Cardinality(TerminalsIn(s)) <= 1
              /\ EndOf(s) <= Len(events) => Cardinality(TerminalsIn(s)) = 1
              /\ \A k \in TerminalsIn(s) : events[k].idx = events[s].idx
        /\ \A k \in DOMAIN events :
              events[k].stage \in TerminalStages => \E s \in Starts : k \in TerminalsIn(s)
        /\ \A k \in DOMAIN events :
              events[k].stage = "complete" =>
                  k = Len(events) /\ events[k].pct = 100 /\ scanPc = "done"
        /\ scanPc = "done" =>
              /\ events[Len(events)].stage = "complete"
              /\ Cardinality(Starts) = Len(filtered_repos)

\* a finished run over two repositories: the first is empty, the second gets
\* its document
C26_Witness ==
    /\ scanPc = "done" /\ progress_callback # "none"
    /\ Cardinality(Starts) = 2
    /\ Cardinality(EventsOf(1, "skip_empty")) = 1
    /\ Cardinality(EventsOf(2, "repo_complete")) = 1
    /\ events[Len(events)] = Ev("complete", 100, 0, "")

\* the repository at position i got its repo_complete event (a commit that
\* failed is reported in that event)
ReachedComplete(i) == history[i].end \in {"complete", "commit"}

\* C27 as stated: at the end of a run every repository that reached
\* repo_complete has an output file of its own: no two of them were written
\* to the same file, and the file holds a whole document.
C27_OwnArtifact ==
    scanPc = "done" =>
        \A i \in DOMAIN history :
            ReachedComplete(i) =>
                /\ disk[Filename(filtered_repos[i])].state = "whole"
                /\ \A j \in DOMAIN history :
                      (j # i /\ ReachedComplete(j)) =>
                          Filename(filtered_repos[j]) # Filename(filtered_repos[i])

\* the account's list without the repository at position i
WithoutRepo(rs, i) == [k \in 1..(Len(rs) - 1) |-> IF k < i THEN rs[k] ELSE rs[k + 1]]

\* the positions the loop has found empty
EmptyRepos == {i \in DOMAIN history : history[i].end = "empty"}

\* the step of the loop that finds the repository at idx empty
SkipsEmpty == scanPc = "analyze" /\ scanPc' = "repo" /\ history'[idx].end = "empty"

Untouched == disk' = disk /\ writes' = writes /\ aiCalls' = aiCalls /\ commitCalls' = commitCalls

\* C28: an archived repository never enters the list that is scanned (the
\* list is the one the account would give without it), and fetching and
\* filtering touch no file and call no service; the step that finds a
\* repository without files writes nothing, leaves every file as it was and
\* calls neither the synthesizer nor the commit; such a repository gets one
\* skip_empty event and neither a generating nor a repo_complete event, and
\* there are never more writes, service calls or commits than repositories
\* that were not empty.
C28_NothingForEmptyOrArchived ==
    /\ [](scanPc = "fetch" =>
             \A rs \in RepoLists : \A i \in DOMAIN rs :
                 rs[i].archived =>
                     FilterRepos(rs, config.include_private)
                         = FilterRepos(WithoutRepo(rs, i), config.include_private))
    /\ [][(scanPc = "fetch" \/ SkipsEmpty) => Untouched]_vars
    /\ [][(SkipsEmpty /\ progress_callback # "none") =>
              events'[Len(events')] = Ev("skip_empty", Pct, idx, "")]_vars
    /\ [](Running =>
             /\ \A i \in EmptyRepos :
                   /\ \A k \in DOMAIN commitCalls : commitCalls[k] # i
                   /\ history[i].reply = NotCalled
                   /\ progress_callback # "none" =>
                         /\ Cardinality(EventsOf(i, "skip_empty")) = 1
                         /\ EventsOf(i, "generating") = {}
                         /\ EventsOf(i, "saving") = {}
                         /\ EventsOf(i, "repo_complete") = {}
             /\ \A n \in {Len(writes), aiCalls, Len(commitCalls)} :
                   n <= Len(history) - Cardinality(EmptyRepos))

\* a finished run with commits enabled: the first repository got its
\* document, the second has the same name and no file, and the document of
\* the first is still on disk
C28_Witness ==
    /\ scanPc = "done" /\ progress_callback # "none"
    /\ Len(history) = 2 /\ history[1].end = "complete" /\ history[2].end = "empty"
    /\ filtered_repos[1] = filtered_repos[2]
    /\ Len(writes) = 1 /\ commitCalls = <<1>>
    /\ disk[Filename(filtered_repos[2])] = Whole(writes[1].doc)
    /\ Cardinality(EventsOf(2, "skip_empty")) = 1

\* C29 as stated: the percent values delivered to the observer lie in
\* 0..100 and never decrease from one event to the next.
C29_PercentNeverDecreases ==
    Observed =>
        /\ \A k \in DOMAIN events : events[k].pct \in 0..100
        /\ \A k \in 1..(Len(events) - 1) : events[k].pct <= events[k + 1].pct

(***************************************************************************)
(* analyze_code_functionality: what the sampled code does.  The snippets   *)
(* are texts; the regular expressions of the function are operators over   *)
(* them.  The list of classes is not modelled.                             *)
(***************************************************************************)
MaxSamples == 3

\* endpoints[:15]
MaxEndpoints == 15

\* list(set(comments))[:5]
MaxComments == 5

\* len(comment_text) > 20
MinCommentLen == 20

Quotes == {"\"", "<quote>"}

Whitespace == {" ", "\t", "\n"}

\* s[i:].startswith(lit)
StartsAt(s, i, lit) ==
    /\ i + Len(lit) - 1 <= Len(s)
    /\ \A j \in 1..Len(lit) : s[i + j - 1] = lit[j]

\* the first position from i on that holds a character of C, Len(s) + 1 if none
FirstIn(s, i, C) ==
    LET hits == {j \in i..Len(s) : s[j] \in C}
    IN  IF hits = {} THEN Len(s) + 1 ELSE CHOOSE j \in hits : \A m \in hits : j <= m

\* the first position from i on that holds a character outside C
FirstNotIn(s, i, C) ==
    LET hits == {j \in i..Len(s) : s[j] \notin C}
    IN  IF hits = {} THEN Len(s) + 1 ELSE CHOOSE j \in hits : \A m \in hits : j <= m

\* ["\']([^"\']+)["\'] matched at position i: the group and where the match stops
QuotedAt(s, i) ==
    LET j == FirstIn(s, i + 1, Quotes)
    IN  IF i <= Len(s) /\ s[i] \in Quotes /\ j > i + 1 /\ j <= Len(s)
        THEN [ok |-> TRUE, group |-> SubSeq(s, i + 1, j - 1), stop |-> j + 1]
        ELSE [ok |-> FALSE, group |-> <<>>, stop |-> i]

\* route_patterns, each with the texts its expression accepts before the
\* quoted literal
route_patterns ==
    << [prefixes |-> << <<"@", "a", "p", "p", ".", "r", "o", "u", "t", "e", "(">> >>,
        framework |-> "Flask"],
       [prefixes |-> << <<"@", "a", "p", "p", ".", "g", "e", "t", "(">>, <<"@", "a", "p", "p",
           ".", "p", "o", "s", "t", "(">>, <<"@", "a", "p", "p", ".", "p", "u", "t", "(">>,
           <<"@", "a", "p", "p", ".", "d", "e", "l", "e", "t", "e", "(">> >>,
        framework |-> "FastAPI"],
       [prefixes |-> << <<"@", "r", "o", "u", "t", "e", "r", ".", "g", "e", "t", "(">>, <<"@",
           "r", "o", "u", "t", "e", "r", ".", "p", "o", "s", "t", "(">>, <<"@", "r", "o", "u",
           "t", "e", "r", ".", "p", "u", "t", "(">>,
                        <<"@", "r", "o", "u", "t", "e", "r", ".", "d", "e", "l", "e", "t", "e",
                            "(">> >>,
        framework |-> "FastAPI"],
       [prefixes |-> << <<"p", "a", "t", "h", "(">> >>, framework |-> "Django"] >>

\* the pattern matched at position k
RouteAt(s, k, prefixes) ==
    LET fits == {n \in 1..Len(prefixes) :
                    StartsAt(s, k, prefixes[n]) /\ QuotedAt(s, k + Len(prefixes[n])).ok}
    IN  IF fits = {} THEN [ok |-> FALSE, group |-> <<>>, stop |-> k]
        ELSE QuotedAt(s, k + Len(prefixes[CHOOSE n \in fits : \A m \in fits : n <= m]))

\* re.finditer(pattern, code): the path groups of the non-overlapping
\* matches, from left to right
RECURSIVE RoutesFrom(_, _, _, _)
RoutesFrom(s, k, prefixes, hits) ==
    LET later == {j \in hits : j >= k}
    IN  IF later = {} THEN <<>>
        ELSE LET m == RouteAt(s, CHOOSE j \in later : \A n \in later : j <= n, prefixes)
             IN  <<m.group>> \o RoutesFrom(s, m.stop, prefixes, later)

\* a match can only start where one of the prefixes starts
FindRoutes(s, k, prefixes) ==
    RoutesFrom(s, k, prefixes,
               {j \in k..Len(s) :
                   (\E n \in 1..Len(prefixes) : s[j] = prefixes[n][1])
                   /\ RouteAt(s, j, prefixes).ok})

AcceptsAnyLiteral(endpoint_path) == endpoint_path # <<>>

\* if endpoint_path and endpoint_path.startswith('/')
LooksLikePath(endpoint_path) == endpoint_path # <<>> /\ endpoint_path[1] = "/"

\* the endpoints one pattern adds for one sample
\* functionality["endpoints"].append({...}) for each accepted literal
AsEndpoints(found, framework, file) ==
    [i \in 1..Len(found) |-> [path |-> found[i], framework |-> framework, file |-> file]]

PatternEndpoints(sample, n) ==
    AsEndpoints(SelectSeq(FindRoutes(sample.snippet, 1, route_patterns[n].prefixes),
                          LooksLikePath),
                route_patterns[n].framework, sample.path)

\* for pattern, framework, path_group in route_patterns: ...
SampleEndpoints(sample) ==
    PatternEndpoints(sample, 1) \o PatternEndpoints(sample, 2)
    \o PatternEndpoints(sample, 3) \o PatternEndpoints(sample, 4)

\* list(set(docstrings))[:5]
MaxDocstrings == 5

\* code[match.end():match.end()+300]
DocWindow == 300

\* \w
WordChars ==
    {c \in AsciiChars :
        \/ c = "_"
        \/ CodeOf(c) \in 48..57 \/ CodeOf(c) \in 65..90 \/ CodeOf(c) \in 97..122}

\* def\s+(\w+)\s*\([^)]*\): matched at position i: the name and where the
\* match stops
FuncAt(s, i) ==
    LET a == i + 3
        b == FirstNotIn(s, a, Whitespace)
        c == FirstNotIn(s, b, WordChars)
        d == FirstNotIn(s, c, Whitespace)
        e == FirstIn(s, d + 1, {")"})
    IN  IF /\ StartsAt(s, i, <<"d", "e", "f">>)
           /\ b > a /\ c > b
           /\ d <= Len(s) /\ s[d] = "("
           /\ e < Len(s) /\ s[e + 1] = ":"
        THEN [ok |-> TRUE, name |-> SubSeq(s, b, c - 1), stop |-> e + 2]
        ELSE [ok |-> FALSE, name |-> <<>>, stop |-> i]

\* re.finditer(func_pattern, code): the non-overlapping matches, from left
\* to right
RECURSIVE FuncsFrom(_, _, _)
FuncsFrom(s, k, hits) ==
    LET later == {j \in hits : j >= k}
    IN  IF later = {} THEN <<>>
        ELSE LET m == FuncAt(s, CHOOSE j \in later : \A n \in later : j <= n)
             IN  <<m>> \o FuncsFrom(s, m.stop, later)

FindFunctions(s) == FuncsFrom(s, 1, {j \in 1..Len(s) : s[j] = "d" /\ FuncAt(s, j).ok})

TripleQuote == <<"\"", "\"", "\"">>

\* """([^"]+)""" matched at position p
DocAt(s, p) ==
    LET j == FirstIn(s, p + 3, {"\""})
    IN  IF StartsAt(s, p, TripleQuote) /\ j > p + 3 /\ StartsAt(s, j, TripleQuote)
        THEN [ok |-> TRUE, group |-> SubSeq(s, p + 3, j - 1)]
        ELSE [ok |-> FALSE, group |-> <<>>]

\* re.search(r'"""([^"]+)"""', after_def): the leftmost match anywhere in
\* the text
SearchDoc(after_def) ==
    LET hits == {p \in 1..Len(after_def) : after_def[p] = "\"" /\ DocAt(after_def, p).ok}
    IN  IF hits = {} THEN [ok |-> FALSE, group |-> <<>>]
        ELSE DocAt(after_def, CHOOSE p \in hits : \A q \in hits : p <= q)

\* code[match.end():match.end()+300]
AfterDef(code, stop) ==
    SubSeq(code, stop, IF Len(code) < stop + DocWindow - 1 THEN Len(code)
                       ELSE stop + DocWindow - 1)

\* func_name.replace('_', ' ')
Humanized(func_name) == ReplaceChar(func_name, "_", " ")

\* if not func_name.startswith('_')
IsPublic(m) == m.name[1] # "_"

\* the matches of one sample that are recorded, each with its doc_match
RecordedFunctions(sample) ==
    LET found == SelectSeq(FindFunctions(sample.snippet), IsPublic)
    IN  [i \in 1..Len(found) |->
            [name |-> found[i].name,
             doc_match |-> SearchDoc(AfterDef(sample.snippet, found[i].stop))]]

\* functionality["functions"].append({...})
SampleFunctions(sample) ==
    LET rec == RecordedFunctions(sample)
    IN  [i \in 1..Len(rec) |->
            [name |-> rec[i].name,
             description |-> IF rec[i].doc_match.ok THEN Strip(rec[i].doc_match.group)
                             ELSE Humanized(rec[i].name),
             file |-> sample.path]]

\* functionality["docstrings"].append(doc_match.group(1).strip())
SampleDocstrings(sample) ==
    LET rec == SelectSeq(RecordedFunctions(sample), LAMBDA r : r.doc_match.ok)
    IN  [i \in 1..Len(rec) |-> Strip(rec[i].doc_match.group)]

\* re.finditer(r'#\s*(.+)$', code, re.MULTILINE): the groups; white space
\* after the "#" is skipped across line ends, the group runs to the end of
\* the line it starts on
RECURSIVE FindComments(_, _)
FindComments(s, k) ==
    LET h == FirstIn(s, k, {"#"})
        j == FirstNotIn(s, h + 1, Whitespace)
        e == FirstIn(s, j, {"\n"})
    IN  IF h > Len(s) \/ j > Len(s) THEN <<>>
        ELSE <<SubSeq(s, j, e - 1)>> \o FindComments(s, e)

\* len(comment_text) > 20 and not comment_text.startswith('-')
MeaningfulComment(comment_text) ==
    Len(comment_text) > MinCommentLen /\ comment_text[1] # "-"

SampleComments(sample) ==
    LET found == FindComments(sample.snippet, 1)
    IN  SelectSeq([i \in 1..Len(found) |-> Strip(found[i])], MeaningfulComment)

\* "\n".join([s.get("snippet", "") for s in samples])
RECURSIVE JoinLines(_)
JoinLines(texts) ==
    IF texts = <<>> THEN <<>>
    ELSE IF Len(texts) = 1 THEN texts[1]
    ELSE texts[1] \o <<"\n">> \o JoinLines(Tail(texts))

AllCode(smp) == StrLower(JoinLines([i \in 1..Len(smp) |-> smp[i].snippet])) \o <<>>

\* the labels added to business_logic_set
BusinessLogicSet(all_code) ==
    LET Has(needle) == Contains(needle, all_code)
    IN  (IF Has(<<"d", "e", "f", " ", "s", "e", "n", "d", "_", "e", "m", "a", "i",
        "l">>) \/ Has(<<"m", "a", "i", "l", ".", "s", "e", "n", "d">>) \/ Has(<<"s", "m", "t",
        "p">>)
         THEN {"Email sending capability"} ELSE {})
        \cup (IF (Has(<<"s", "t", "r", "i", "p", "e">>) \/ Has(<<"p", "a", "y", "m", "e", "n",
            "t", "_", "i", "n", "t", "e", "n", "t">>)) /\ Has(<<"d", "e", "f">>)
              THEN {"Payment processing"} ELSE {})
        \cup (IF Has(<<"w", "e", "b", "h", "o", "o", "k">>) /\ (Has(<<"d", "e",
            "f">>) \/ Has(<<"@", "a", "p", "p">>))
              THEN {"Webhook handling"} ELSE {})
        \cup (IF (Has(<<"u", "p", "l", "o", "a", "d">>) /\ Has(<<"f", "i", "l", "e">>))
                 /\ (Has(<<"d", "e", "f", " ", "u", "p", "l", "o", "a", "d">>) \/ Has(<<"u",
                     "p", "l", "o", "a", "d", "_", "f", "i", "l", "e">>))
              THEN {"File upload functionality"} ELSE {})
        \cup (IF Has(<<"@", "c", "e", "l", "e", "r", "y">>) \/ Has(<<"c", "e", "l", "e", "r",
            "y", ".", "t", "a", "s", "k">>)
              THEN {"Background task scheduling"} ELSE {})
        \cup (IF Has(<<"d", "e", "f", " ", "l", "o", "g", "i", "n">>) \/ Has(<<"d", "e", "f",
            " ", "a", "u", "t", "h", "e", "n", "t", "i", "c", "a", "t", "e">>) \/ Has(<<"@",
            "l", "o", "g", "i", "n", "_", "r", "e", "q", "u", "i", "r", "e", "d">>)
              THEN {"User authentication"} ELSE {})
        \cup (IF Has(<<"d", "e", "f", " ", "r", "e", "g", "i", "s", "t", "e",
            "r">>) \/ Has(<<"d", "e", "f", " ", "s", "i", "g", "n", "u", "p">>) \/ Has(<<"c",
            "r", "e", "a", "t", "e", "_", "u", "s", "e", "r">>)
              THEN {"User registration"} ELSE {})

\* the labels added to user_flows_set
UserFlowsSet(all_code) ==
    LET Has(needle) == Contains(needle, all_code)
    IN  (IF (Has(<<"s", "t", "r", "i", "p", "e">>) \/ Has(<<"p", "a", "y", "m", "e", "n", "t",
        "_", "i", "n", "t", "e", "n", "t">>)) /\ Has(<<"d", "e", "f">>)
         THEN {"Users can make purchases and payments"} ELSE {})
        \cup (IF (Has(<<"u", "p", "l", "o", "a", "d">>) /\ Has(<<"f", "i", "l", "e">>))
                 /\ (Has(<<"d", "e", "f", " ", "u", "p", "l", "o", "a", "d">>) \/ Has(<<"u",
                     "p", "l", "o", "a", "d", "_", "f", "i", "l", "e">>))
              THEN {"Users can upload files or images"} ELSE {})
        \cup (IF Has(<<"d", "e", "f", " ", "l", "o", "g", "i", "n">>) \/ Has(<<"d", "e", "f",
            " ", "a", "u", "t", "h", "e", "n", "t", "i", "c", "a", "t", "e">>) \/ Has(<<"@",
            "l", "o", "g", "i", "n", "_", "r", "e", "q", "u", "i", "r", "e", "d">>)
              THEN {"Users can log in to access their account"} ELSE {})
        \cup (IF Has(<<"d", "e", "f", " ", "r", "e", "g", "i", "s", "t", "e",
            "r">>) \/ Has(<<"d", "e", "f", " ", "s", "i", "g", "n", "u", "p">>) \/ Has(<<"c",
            "r", "e", "a", "t", "e", "_", "u", "s", "e", "r">>)
              THEN {"New users can create an account"} ELSE {})
        \cup (IF Has(<<"d", "e", "f", " ", "d", "a", "s", "h", "b", "o", "a", "r",
            "d">>) \/ Has(<<"/", "d", "a", "s", "h", "b", "o", "a", "r", "d">>) \/ Has(<<"r",
            "o", "u", "t", "e", ".", "*", "d", "a", "s", "h", "b", "o", "a", "r", "d">>)
              THEN {"Users can view a personalized dashboard"} ELSE {})
        \cup (IF (Has(<<"u", "p", "d", "a", "t", "e", "_", "p", "r", "o", "f", "i", "l",
            "e">>) \/ Has(<<"e", "d", "i", "t", "_", "p", "r", "o", "f", "i", "l",
            "e">>)) /\ Has(<<"d", "e", "f">>)
              THEN {"Users can edit their profile information"} ELSE {})
        \cup (IF (Has(<<"d", "e", "f", " ", "s", "e", "a", "r", "c", "h">>) \/ Has(<<"/", "s",
            "e", "a", "r", "c", "h">>)) /\ Has(<<"q", "u", "e", "r", "y">>)
              THEN {"Users can search through content"} ELSE {})
        \cup (IF Has(<<"d", "e", "f", ".", "*", "c", "o", "m", "m", "e", "n",
            "t">>) \/ Has(<<"c", "r", "e", "a", "t", "e", "_", "c", "o", "m", "m", "e", "n",
            "t">>) \/ Has(<<"a", "d", "d", "_", "f", "e", "e", "d", "b", "a", "c", "k">>)
              THEN {"Users can leave comments or feedback"} ELSE {})
        \cup (IF Has(<<"s", "e", "n", "d", "_", "n", "o", "t", "i", "f", "i", "c", "a", "t",
            "i", "o", "n">>) \/ Has(<<"n", "o", "t", "i", "f", "y", "_", "u", "s", "e", "r">>)
              THEN {"Users receive notifications"} ELSE {})
        \cup (IF (Has(<<"d", "e", "f", " ", "e", "x", "p", "o", "r", "t">>) \/ Has(<<"d", "o",
            "w", "n", "l", "o", "a", "d">>)) /\ (Has(<<"c", "s", "v">>) \/ Has(<<"p", "d",
            "f">>))
              THEN {"Users can export data"} ELSE {})

\* list(set(...)): the elements once each, in the order the set happens to
\* enumerate them; the order depends on the hash seed of the process
RECURSIVE Orders(_)
Orders(S) ==
    IF S = {} THEN {<<>>}
    ELSE UNION {{<<x>> \o o : o \in Orders(S \ {x})} : x \in S}

(***************************************************************************)
(* The sampled files the extraction is run on, given line by line.         *)
(***************************************************************************)
Decl(kind, q, text) == [kind |-> kind, q |-> q, text |-> text]

DQ == "\""

SQ == "<quote>"

\* a function header, followed by its docstring when it has one
Def(name, params, hasDoc, doc) ==
    [kind |-> "def", q |-> DQ, text |-> name, params |-> params, hasDoc |-> hasDoc,
     doc |-> doc]

\* the text of a declaration before its literal
PrefixOf(kind) ==
    CASE kind = "route" -> <<"@", "a", "p", "p", ".", "r", "o", "u", "t", "e", "(">>
      [] kind = "app.get" -> <<"@", "a", "p", "p", ".", "g", "e", "t", "(">>
      [] kind = "app.delete" -> <<"@", "a", "p", "p", ".", "d", "e", "l", "e", "t", "e", "(">>
      [] kind = "router.post" -> <<"@", "r", "o", "u", "t", "e", "r", ".", "p", "o", "s", "t",
          "(">>
      [] kind = "path" -> <<" ", " ", " ", " ", "p", "a", "t", "h", "(">>

FrameworkOf(kind) ==
    CASE kind = "route" -> "Flask"
      [] kind \in {"app.get", "app.delete", "router.post"} -> "FastAPI"
      [] kind = "path" -> "Django"

\* the place of the declaration's pattern in route_patterns
PatternOf(kind) ==
    CASE kind = "route" -> 1
      [] kind \in {"app.get", "app.delete"} -> 2
      [] kind = "router.post" -> 3
      [] kind = "path" -> 4

RouteKinds == {"route", "app.get", "app.delete", "router.post", "path"}

LineText(d) ==
    IF d.kind \in RouteKinds THEN PrefixOf(d.kind) \o <<d.q>> \o d.text \o <<d.q, ")">>
    ELSE IF d.kind = "def"
    THEN <<"d", "e", "f", " ">> \o d.text \o <<"(">> \o d.params \o <<")", ":">>
         \o (IF d.hasDoc THEN <<"\n", " ", " ", " ",
             " ">> \o TripleQuote \o d.doc \o TripleQuote ELSE <<>>)
    ELSE d.text

File(name, decl) ==
    [path |-> name, decl |-> decl,
     snippet |-> JoinLines([i \in 1..Len(decl) |-> LineText(decl[i])])]

LoginFile ==
    File("login.py",
         << Def(<<"l", "o", "g", "i", "n">>, <<"r", "e", "q", "u", "e", "s", "t">>, FALSE, <<>>),
            Decl("code", DQ, <<" ", " ", " ", " ", "r", "e", "t", "u", "r", "n", " ", "r", "e",
                "n", "d", "e", "r", "(", "r", "e", "q", "u", "e", "s", "t", ")">>),
            Decl("route", DQ, <<"/", "l", "o", "g", "i", "n">>) >>)

NoSlashFile ==
    File("urls.py",
         << Decl("route", DQ, <<"l", "o", "g", "i", "n">>),
            Decl("path", SQ, <<"a", "d", "m", "i", "n", "/">>),
            Decl("app.get", SQ, <<"i", "t", "e", "m", "s">>) >>)

FlaskFile ==
    File("views.py",
         << Decl("route", DQ, <<"/", "a">>), Decl("route", SQ, <<"/", "b">>), Decl("route", DQ,
             <<"/", "c">>),
            Decl("route", DQ, <<"/", "d">>), Decl("route", DQ, <<"/", "e">>), Decl("route", DQ,
                <<"/", "f">>) >>)

MixedFile ==
    File("api.py",
         << Decl("router.post", DQ, <<"/", "g">>), Decl("route", DQ, <<"/", "h">>),
            Decl("path", SQ, <<"/", "i">>), Decl("app.get", DQ, <<"/", "j">>),
            Decl("route", DQ, <<"/", "k">>), Decl("app.delete", SQ, <<"/", "l">>) >>)

DjangoFile ==
    File("site.py",
         << Decl("path", SQ, <<"/", "m">>), Decl("path", SQ, <<"/", "n">>), Decl("path", SQ,
             <<"/", "o">>),
            Decl("path", SQ, <<"/", "p">>), Decl("path", SQ, <<"/", "q">>), Decl("path", SQ,
                <<"/", "r">>),
            Decl("path", SQ, <<"/", "s">>), Decl("path", SQ, <<"/", "t">>) >>)

ShopFile ==
    File("shop.py",
         << Decl("code", DQ, <<"i", "m", "p", "o", "r", "t", " ", "s", "t", "r", "i", "p",
             "e">>),
            Decl("route", DQ, <<"/", "p", "a", "y">>),
            Decl("route", DQ, <<"/", "p", "a", "y">>),
            Decl("code", DQ, <<"#", " ", "C", "h", "a", "r", "g", "e", "s", " ", "t", "h", "e",
                " ", "c", "a", "r", "d", " ", "o", "f", " ", "t", "h", "e", " ", "c", "u", "s",
                "t", "o", "m", "e", "r">>),
            Def(<<"c", "h", "a", "r", "g", "e">>, <<"c", "a", "r", "d">>, FALSE, <<>>),
            Decl("code", DQ, <<" ", " ", " ", " ", "p", "a", "s", "s", " ", " ", "#", " ", "T",
                "O", "D", "O">>),
            Decl("code", DQ, <<"#", " ", "S", "e", "n", "d", "s", " ", "t", "h", "e", " ", "r",
                "e", "c", "e", "i", "p", "t", " ", "t", "o", " ", "t", "h", "e", " ", "c", "u",
                "s", "t", "o", "m", "e", "r">>) >>)

HelpersFile ==
    File("helpers.py",
         << Def(<<"p", "a", "r", "s", "e", "_", "a", "r", "g", "s">>, <<"a", "r", "g", "v">>,
             FALSE, <<>>),
            Decl("code", DQ, <<" ", " ", " ", " ", "r", "e", "t", "u", "r", "n", " ", "a", "r",
                "g", "v">>),
            Def(<<"_", "h", "i", "d", "d", "e", "n">>, <<"x">>, TRUE, <<"I", "n", "t", "e",
                "r", "n", "a", "l", " ", "h", "e", "l", "p", "e", "r">>),
            Def(<<"l", "o", "a", "d", "_", "c", "o", "n", "f", "i", "g">>, <<"p", "a", "t",
                "h">>, TRUE, <<" ", "L", "o", "a", "d", " ", "t", "h", "e", " ", "s", "e", "t",
                "t", "i", "n", "g", "s", " ">>),
            Decl("code", DQ, <<" ", " ", " ", " ", "r", "e", "t", "u", "r", "n", " ", "p", "a",
                "t", "h">>) >>)

Files == {LoginFile, NoSlashFile, FlaskFile, MixedFile, DjangoFile, ShopFile, HelpersFile}

SampleLists == UNION {[1..n -> Files] : n \in 0..MaxSamples}

\* what the expressions find in each file, worked out once per file
EndpointsTable == [sample \in Files |-> SampleEndpoints(sample)]

CommentsTable == [sample \in Files |-> SampleComments(sample)]

FunctionsTable == [sample \in Files |-> SampleFunctions(sample)]

DocstringsTable == [sample \in Files |-> SampleDocstrings(sample)]

\* the lists of one sample, appended to the record
AddSample(f, sample) ==
    [f EXCEPT !.endpoints = @ \o EndpointsTable[sample],
              !.functions = @ \o FunctionsTable[sample],
              !.docstrings = @ \o DocstringsTable[sample],
              !.comments = @ \o CommentsTable[sample]]

EmptyFunctionality ==
    [endpoints |-> <<>>, functions |-> <<>>, business_logic |-> <<>>, comments |-> <<>>,
     docstrings |-> <<>>, user_flows |-> <<>>]

CapKeepsLatest(endpoints) ==
    SubSeq(endpoints, IF Len(endpoints) > MaxEndpoints THEN Len(endpoints) - MaxEndpoints + 1
                      ELSE 1, Len(endpoints))

\* functionality["endpoints"][:15]
CapEndpoints(endpoints) == Take(endpoints, MaxEndpoints)

\* the part of the function after the loop over the samples
Conclude(f, smp, logicOrder, flowOrder, docOrder, commentOrder) ==
    [f EXCEPT !.business_logic = logicOrder,
              !.user_flows = flowOrder,
              !.endpoints = CapEndpoints(@),
              !.docstrings = Take(docOrder, MaxDocstrings),
              !.comments = Take(commentOrder, MaxComments)]

RECURSIVE AddSamples(_, _)
AddSamples(f, smp) ==
    IF smp = <<>> THEN f ELSE AddSamples(AddSample(f, Head(smp)), Tail(smp))

\* every record one call of the function can return for the samples
analyze_code_functionality(smp) ==
    LET f == AddSamples(EmptyFunctionality, smp)
    IN  {Conclude(f, smp, lo, fo, do, co) :
            lo \in Orders(BusinessLogicSet(AllCode(smp))),
            fo \in Orders(UserFlowsSet(AllCode(smp))),
            do \in Orders(Range(f.docstrings)),
            co \in Orders(Range(f.comments))}

FuncInit ==
    /\ samples \in SampleLists
    /\ sampleIdx = 0
    /\ functionality = EmptyFunctionality
    /\ second = "none"
    /\ funcPc = "loop"

\* one iteration of "for sample in samples"
ScanSample ==
    /\ funcPc = "loop" /\ sampleIdx < Len(samples)
    /\ functionality' = AddSample(functionality, samples[sampleIdx + 1])
    /\ sampleIdx' = sampleIdx + 1
    /\ UNCHANGED <<samples, second, funcPc>>
    /\ UNCHANGED <<pathVars, analyzeVars, walkVars, readmeVars, scanVars>>

\* the pattern detection, the deduplication and the caps, and the return
ConcludeScan ==
    /\ funcPc = "loop" /\ sampleIdx = Len(samples)
    /\ \E logicOrder \in Orders(BusinessLogicSet(AllCode(samples))),
          flowOrder \in Orders(UserFlowsSet(AllCode(samples))),
          docOrder \in Orders(Range(functionality.docstrings)),
          commentOrder \in Orders(Range(functionality.comments)) :
            functionality' =
                Conclude(functionality, samples, logicOrder, flowOrder, docOrder,
                         commentOrder)
    /\ funcPc' = "returned"
    /\ UNCHANGED <<samples, sampleIdx, second>>
    /\ UNCHANGED <<pathVars, analyzeVars, walkVars, readmeVars, scanVars>>

\* the function is called once more on the same samples
CallAgain ==
    /\ funcPc = "returned"
    /\ second' \in analyze_code_functionality(samples)
    /\ funcPc' = "twice"
    /\ UNCHANGED <<samples, sampleIdx, functionality>>
    /\ UNCHANGED <<pathVars, analyzeVars, walkVars, readmeVars, scanVars>>

FuncNext ==
    \/ ScanSample
    \/ ConcludeScan
    \/ CallAgain

SpecFuncInit ==
    FuncInit /\ PathIdle /\ AnalyzeIdle /\ WalkIdle /\ ReadmeIdle /\ ScanIdle

SpecFunc == SpecFuncInit /\ [][FuncNext]_vars

(***************************************************************************)
(* Properties of the extraction                                            *)
(***************************************************************************)
\* the route declarations of one file that one pattern accepts, as written
\* in the file from top to bottom
DeclaredFor(sample, n) ==
    LET own == SelectSeq(sample.decl,
                         LAMBDA d : /\ d.kind \in RouteKinds
                                    /\ PatternOf(d.kind) = n
                                    /\ d.text # <<>> /\ d.text[1] = "/")
    IN  [i \in 1..Len(own) |->
            [path |-> own[i].text, framework |-> FrameworkOf(own[i].kind),
             file |-> sample.path]]

\* discovery order: sample by sample, pattern by pattern, top to bottom
RECURSIVE Discovery(_)
Discovery(smp) ==
    IF smp = <<>> THEN <<>>
    ELSE DeclaredFor(Head(smp), 1) \o DeclaredFor(Head(smp), 2)
         \o DeclaredFor(Head(smp), 3) \o DeclaredFor(Head(smp), 4)
         \o Discovery(Tail(smp))

Returned == funcPc \in {"returned", "twice"}

\* C11: while the samples are gone through, the endpoint list holds every
\* matching declaration found so far, in discovery order and with repeats;
\* the returned list is its first 15 entries, all of it when it has fewer.
C11_EndpointCap ==
    /\ funcPc = "loop" =>
          functionality.endpoints = Discovery(SubSeq(samples, 1, sampleIdx))
    /\ Returned =>
          /\ functionality.endpoints = Take(Discovery(samples), MaxEndpoints)
          /\ Len(functionality.endpoints)
                = (IF Len(Discovery(samples)) < MaxEndpoints
                   THEN Len(Discovery(samples)) ELSE MaxEndpoints)

\* 20 distinct declarations were found and 15 endpoints returned
C11_Witness ==
    /\ funcPc = "returned"
    /\ Len(Discovery(samples)) = 20
    /\ Cardinality(Range(Discovery(samples))) = 20
    /\ Len(functionality.endpoints) = MaxEndpoints

\* C12: for the single file with "def login(request):" and
\* @app.route("/login") the record has the log-in user flow, the label
\* "User authentication" and the one endpoint /login of Flask; a literal
\* that does not begin with "/" never becomes an endpoint.
C12_LoginScenario ==
    Returned =>
        /\ samples = <<LoginFile>> =>
              /\ functionality.user_flows = <<"Users can log in to access their account">>
              /\ functionality.business_logic = <<"User authentication">>
              /\ functionality.endpoints
                    = << [path |-> <<"/", "l", "o", "g", "i", "n">>, framework |-> "Flask",
                        file |-> "login.py"] >>
        /\ \A i \in DOMAIN functionality.endpoints : functionality.endpoints[i].path[1] = "/"
        /\ (\A i \in DOMAIN samples : samples[i] = NoSlashFile) =>
              functionality.endpoints = <<>>

\* the login file alone was analysed
C12_Witness ==
    /\ funcPc = "returned" /\ samples = <<LoginFile>>
    /\ Len(functionality.endpoints) = 1

\* C13 as stated: a second call on the same samples returns the same record.
C13_SameRecordTwice == funcPc = "twice" => second = functionality

\* the functions one file declares whose name does not begin with an
\* underscore, each with the docstring written under its own header
OwnFunctions(sample) ==
    SelectSeq(sample.decl, LAMBDA d : d.kind = "def" /\ d.text[1] # "_")

\* what is to be recorded for them: the trimmed docstring, or the name with
\* its underscores turned into spaces
DescribedFunctions(sample) ==
    LET own == OwnFunctions(sample)
    IN  [i \in 1..Len(own) |->
            [name |-> own[i].text,
             description |-> IF own[i].hasDoc THEN Strip(own[i].doc)
                             ELSE [k \in 1..Len(own[i].text) |->
                                      IF own[i].text[k] = "_" THEN " " ELSE own[i].text[k]],
             file |-> sample.path]]

OwnDocstrings(sample) ==
    LET own == SelectSeq(OwnFunctions(sample), LAMBDA d : d.hasDoc)
    IN  [i \in 1..Len(own) |-> Strip(own[i].doc)]

RECURSIVE Described(_)
Described(smp) ==
    IF smp = <<>> THEN <<>> ELSE DescribedFunctions(Head(smp)) \o Described(Tail(smp))

RECURSIVE DocPool(_)
DocPool(smp) ==
    IF smp = <<>> THEN <<>> ELSE OwnDocstrings(Head(smp)) \o DocPool(Tail(smp))

\* C23 as stated: the functions recorded are the declared ones whose name
\* does not begin with an underscore, each described by its own docstring or,
\* without one, by its humanized name, and the doc-snippet pool holds the
\* docstrings of those functions only.
C23_OwnDocstringOnly ==
    /\ funcPc = "loop" =>
          /\ functionality.functions = Described(SubSeq(samples, 1, sampleIdx))
          /\ functionality.docstrings = DocPool(SubSeq(samples, 1, sampleIdx))
    /\ Returned =>
          /\ functionality.functions = Described(samples)
          /\ Range(functionality.docstrings) \subseteq Range(DocPool(samples))

====
